---- MODULE Spec2Model ----
(***************************************************************************)
(* eXaM (xm) unit testing framework: the filter matcher, the filter        *)
(* setter, the self-registering test list and the runner of src/xm.cpp.    *)
(*                                                                         *)
(* Strings are sequences of one-character strings.  A C string is such a   *)
(* sequence read through At, which yields NUL at the offset of its length. *)
(* Pointers into a string are 0-based offsets; pointers to Test objects    *)
(* are indices into the heap `tests`, 0 being the null pointer.            *)
(***************************************************************************)
EXTENDS Integers, Sequences, FiniteSets, TLC

\* ------------------------------------------------------------------ bounds
\* longest filter list / pattern handed to the matcher harness
MaxFilterLen == 4
\* longest id handed to the matcher harness
MaxIdLen == 4
\* longest generated filter string handed to SetFilter
MaxFilterStrLen == 1
\* number of Test objects constructed
MaxTests == 3
\* the most sets a cartesian space has, the most elements a set has, and the most
\* RunTests calls a program with a parameterized test makes
MaxAxes == 2
MaxAxisSize == 3
MaxPasses == 2
\* the most calls a program makes on a CartesianProduct object it holds itself
MaxCalls == 4
\* the most characters by which a suite, '_' and a name exceed sMessageBuffer
MaxOverrun == 2
\* the most bytes read behind sMessageBuffer before a NUL is met
MaxAdjacent == 6

\* --------------------------------------------------------------- constants
kFilterWildcard == "*"
kJoinTestSuiteName == "_"
kListSeparator == ":"
kNegativeMarker == "-"
NUL == "NUL"
MessageBufferSize == 1024
NoPtr == 0 - 1
NullTest == 0

\* ------------------------------------------------------------ C primitives
Min(S) == CHOOSE m \in S : \A k \in S : m <= k

MinOf(a, b) == IF a <= b THEN a ELSE b

\* *(s + i) for a NUL-terminated string s
At(s, i) == IF i < Len(s) THEN s[i + 1] ELSE NUL

\* strchr(s + from, c): offset of the first c at or after from, terminator included
strchr(s, from, c) ==
  LET hits == { k \in from..Len(s) : At(s, k) = c }
  IN  IF hits = {} THEN NoPtr ELSE Min(hits)

\* strcspn(s + from, reject): length of the run free of reject characters
strcspn(s, from, reject) ==
  LET stops == { k \in from..Len(s) : At(s, k) \in (reject \cup {NUL}) }
  IN  Min(stops) - from

\* std::find_if(filter, filterEnd, c != kFilterWildcard)
SkipWildcards(f, filter, filterEnd) ==
  LET stops == { k \in filter..filterEnd : k = filterEnd \/ At(f, k) # kFilterWildcard }
  IN  Min(stops)

\* ------------------------------------------------------------ FindSubstring
\* the do { ++iFind; ++string; } while (*string == *iFind && iFind != findEnd) loop;
\* yields the values of iFind and string on exit
RECURSIVE ScanSubstring(_, _, _, _, _)
ScanSubstring(f, iFind, findEnd, s, string) ==
  LET iFind1 == iFind + 1
      string1 == string + 1
  IN  IF At(s, string1) = At(f, iFind1) /\ iFind1 # findEnd
      THEN ScanSubstring(f, iFind1, findEnd, s, string1)
      ELSE [iFind |-> iFind1, string |-> string1]

RECURSIVE FindSubstring(_, _, _, _, _)

\* FindSubstring that gives up at the first partial occurrence instead of looking on
FindSubstringNoRetry(f, find, findEnd, s, string) ==
  IF findEnd - find = 0
  THEN string
  ELSE LET found == strchr(s, string, At(f, find))
       IN  IF found = NoPtr
           THEN NoPtr
           ELSE LET scan == ScanSubstring(f, find, findEnd, s, found)
                IN  IF scan.iFind # findEnd
                    THEN NoPtr
                    ELSE scan.string

\* FindSubstring(find, findEnd, string): find, findEnd are offsets into the filter
\* list f, string is an offset into the id s; the result is an offset into s or NoPtr
FindSubstring(f, find, findEnd, s, string) ==
  IF findEnd - find = 0
  THEN string
  ELSE LET found == strchr(s, string, At(f, find))
       IN  IF found = NoPtr
           THEN NoPtr
           ELSE LET scan == ScanSubstring(f, find, findEnd, s, found)
                IN  IF scan.iFind # findEnd
                    THEN FindSubstring(f, find, findEnd, s, scan.string)
                    ELSE scan.string

\* -------------------------------------------------------------- FilterMatch
RECURSIVE FilterMatch(_, _, _, _, _, _)

\* FilterMatch without the early return on a trailing wildcard
FilterMatchNoTrailingWildcard(f, filter, filterEnd, s, id, idEnd) ==
  IF filter = filterEnd
  THEN id = idEnd
  ELSE LET filter1 == IF At(f, filter) = kFilterWildcard
                      THEN SkipWildcards(f, filter, filterEnd)
                      ELSE filter
           subEnd == filter1 + strcspn(f, filter1, {kListSeparator, kFilterWildcard})
           id1 == FindSubstring(f, filter1, subEnd, s, id)
       IN  IF id1 = NoPtr
           THEN FALSE
           ELSE FilterMatch(f, subEnd, filterEnd, s, id1, idEnd)

\* FilterMatch(filter, filterEnd, id, idEnd): one pass of the while loop and the rest
FilterMatch(f, filter, filterEnd, s, id, idEnd) ==
  IF filter = filterEnd
  THEN id = idEnd
  ELSE LET filter1 == IF At(f, filter) = kFilterWildcard
                      THEN SkipWildcards(f, filter, filterEnd)
                      ELSE filter
       IN  IF At(f, filter) = kFilterWildcard /\ filter1 = filterEnd
           THEN TRUE
           ELSE LET subEnd == filter1 + strcspn(f, filter1, {kListSeparator, kFilterWildcard})
                    id1 == FindSubstring(f, filter1, subEnd, s, id)
                IN  IF id1 = NoPtr
                    THEN FALSE
                    ELSE FilterMatch(f, subEnd, filterEnd, s, id1, idEnd)

\* ------------------------------------------------------------- FiltersMatch
\* the while (i != iEnd) loop of FiltersMatch from offset i
RECURSIVE FiltersMatchFrom(_, _, _, _, _)
FiltersMatchFrom(filters, i, s, id, idEnd) ==
  LET iEnd == Len(filters)
  IN  IF i = iEnd
      THEN FALSE
      ELSE LET subEnd == i + strcspn(filters, i, {kListSeparator})
           IN  IF FilterMatch(filters, i, subEnd, s, id, idEnd)
               THEN TRUE
               ELSE FiltersMatchFrom(filters, IF subEnd # iEnd THEN subEnd + 1 ELSE subEnd,
                                     s, id, idEnd)

\* FiltersMatch that tries the first filter of the list only
FiltersMatchFirstTokenOnly(filters, s, id, idEnd) ==
  /\ Len(filters) # 0
  /\ FilterMatch(filters, 0, strcspn(filters, 0, {kListSeparator}), s, id, idEnd)

\* FiltersMatch(filters, id, idEnd)
FiltersMatch(filters, s, id, idEnd) == FiltersMatchFrom(filters, 0, s, id, idEnd)

\* ---------------------------------------------------------------- IsAllowed
CandidateId(suite, name) == suite \o <<kJoinTestSuiteName>> \o name

\* snprintf(sMessageBuffer, sizeof(sMessageBuffer), "%s%c%s", ...): the buffer holds the
\* id cut to size - 1 characters and a terminator, the return value is the uncut length
Snprintf(size, text) ==
  [buffer |-> SubSeq(text, 1, MinOf(Len(text), size - 1)), idLen |-> Len(text)]

\* IsAllowed with the exclusion filters left out
IsAllowedIncludeOnly(include, exclude, suite, name) ==
  LET printed == Snprintf(MessageBufferSize, CandidateId(suite, name))
      idEnd == printed.idLen
  IN  [buffer |-> printed.buffer,
       idEnd |-> idEnd,
       value |-> FiltersMatch(include, printed.buffer, 0, idEnd)]

\* IsAllowed(suite, name) under the filters include and exclude: the buffer it leaves
\* behind and the value it returns
IsAllowed(include, exclude, suite, name) ==
  LET printed == Snprintf(MessageBufferSize, CandidateId(suite, name))
      idEnd == printed.idLen
  IN  [buffer |-> printed.buffer,
       idEnd |-> idEnd,
       value |-> FiltersMatch(include, printed.buffer, 0, idEnd)
                 /\ ~FiltersMatch(exclude, printed.buffer, 0, idEnd)]

\* ------------------------------------------------------------------- inputs
Seqs(alphabet, n) == UNION { [1..k -> alphabet] : k \in 0..n }

\* patterns and ids of the self test XM_TEST(Xm, FilterMatch)
DocFilters ==
  { <<"A", "*">>, <<"*", "C">>, <<"A", "*", "C">>, <<"A", "*", "B", "*", "C">>,
    <<"B">>, <<"*", "A", "B">>, <<"B", "C", "*">> }

DocIds ==
  { <<"A">>, <<"A", "B">>, <<"A", "B", "C">>, <<"C">>, <<"B", "C">>,
    <<"C", "A", "B", "C">>, <<"A", "C">>, <<"A", "C", "B", "C">>,
    <<"A", "B", "C", "B", "C", "C">>, <<"A", "A", "B", "C">>, <<"A", "B", "B", "C">>,
    <<"A", "B", "C", "C">>, <<"A", "A", "B", "B", "C", "C">>, <<"B", "A">>,
    <<"A", "B", "A">> }

\* ids that hold the characters filters give a meaning to; FilterMatch takes any range
\* of characters as [id, idEnd), and no self test passes these
MarkerIds == { <<"*">>, <<":">>, <<"A", "*", ":">> }

FilterLists == Seqs({"A", "B", kFilterWildcard, kListSeparator}, MaxFilterLen) \cup DocFilters

Ids == Seqs({"A", "B"}, MaxIdLen) \cup DocIds \cup MarkerIds

\* the argument values of SetFilter in the state: a null pointer, and no call so far
NullStr == <<"nullptr">>
NotCalled == <<"not called">>

ScenarioFilter == <<"*", "T", "h", "i", "s", "*", "-", "N", "o", "t", "*">>

FilterStrs ==
  Seqs({"A", kNegativeMarker}, MaxFilterStrLen)
  \cup { ScenarioFilter,
         <<"*", "_", "A", ":", "*", "T", "h", "*", "-", "*", "a", "t", ":", "-", "B">>,
         <<":", "-", ":">>,
         <<"F", "o", "o", "*", "-", "*", "-", "*">>,
         <<"-", "*">>,
         <<"B", "a", "r", "*">> }

\* string literals naming suites, by address; whether the "FooTest" of another
\* translation unit is the same object as the first is up to the build, and here it
\* is not (address 3)
SuiteLiteral ==
  [a \in 1..3 |-> IF a = 2 THEN <<"B", "a", "r">> ELSE <<"F", "o", "o", "T", "e", "s", "t">>]

\* what the body of a declared test does: returns, fails XM_ASSERT_TRUE(x), calls
\* XM_FAIL("no"), throws something that is no xm Exception, calls XM_FAIL(nullptr),
\* fails XM_ASSERT_TRUE(x) while an object is alive whose destructor makes the passing
\* check XM_ASSERT_TRUE(c), fails XM_ASSERT_TRUE(...) over an expression long enough to
\* fill sMessageBuffer; the body of a parameterized test may check its xmIteration
Bodies ==
  {"return", "assert", "fail", "throw", "failnull", "assert_dtor", "assert_long", "ordinal"}

\* the tests a program declares: suite (the address of its literal), name and body
Decls ==
  { [mSuite |-> 1, mName |-> <<"T", "h", "a", "t">>, body |-> "return"],
    [mSuite |-> 1, mName |-> <<"N", "o", "t", "T", "h", "i", "s">>, body |-> "assert"],
    [mSuite |-> 3, mName |-> <<"T", "h", "i", "s">>, body |-> "fail"],
    [mSuite |-> 2, mName |-> <<"A">>, body |-> "throw"] }

AssertExpr == <<"x">>
DtorExpr == <<"c">>
FailMessage == <<"n", "o">>
BadExceptionMessage ==
  <<"B", "a", "d", " ", "e", "x", "c", "e", "p", "t", "i", "o", "n", " ",
    "t", "h", "r", "o", "w", "n", ".">>
ExpectedPrefix == <<"E", "x", "p", "e", "c", "t", "e", "d", ":", " ">>
\* the expression with which "Expected: " and the expression have the size of
\* sMessageBuffer
LongExpr == [i \in 1..(MessageBufferSize - Len(ExpectedPrefix)) |-> "x"]

\* -------------------------------------------------------------------- state
VARIABLES
  sIncludeFilter,   \* std::string sIncludeFilter
  sExcludeFilter,   \* std::string sExcludeFilter
  sFirst,           \* detail::Test* sFirst
  sLast,            \* detail::Test* sLast
  tests,            \* the Test objects constructed so far, by address 1..Len(tests)
  sError,           \* char const* sError
  sMessageBuffer,   \* the characters of sMessageBuffer before its first terminator
  sOutput,          \* the lines written to *sOutput by the current or last RunTests call
  filterStr,        \* the argument of the last SetFilter call
  pc,               \* where the caller or RunTests stands
  test,             \* RunTests: test
  allowed,          \* RunTests: the value of IsAllowed(test->mSuite, test->mName)
  result,           \* RunTests: result
  run,              \* RunTests: run
  passed,           \* RunTests: passed
  ignored,          \* RunTests: ignored
  lastSuite,        \* RunTests: lastSuite
  exitCode,         \* the value RunTests returned
  argFilters,       \* matcher harness: the filter or filter list handed in
  argId,            \* matcher harness: the id handed in
  matched,          \* matcher harness: which function was called and what it returned
  prevFilterStr,    \* the argument of the SetFilter call before the last one
  mSizes,           \* CartesianProductCore: mSizes of the parameterized test
  mState,           \* CartesianProductCore: mState, indexed from 0 as a tuple from 1
  mIteration,       \* CartesianProductCoreCore: mIteration
  calls,            \* what the current or last pass called on the parameterized test
  passes            \* the number of RunTests calls that have returned

filterVars == <<sIncludeFilter, sExcludeFilter, filterStr>>
registryVars == <<sFirst, sLast, tests>>
frameVars == <<test, allowed, result, run, passed, ignored, lastSuite>>
harnessVars == <<argFilters, argId, matched>>
productVars == <<mSizes, mState, mIteration, calls, passes>>
vars == <<sIncludeFilter, sExcludeFilter, sFirst, sLast, tests, sError, sMessageBuffer,
          sOutput, filterStr, pc, test, allowed, result, run, passed, ignored, lastSuite,
          exitCode, argFilters, argId, matched, prevFilterStr, mSizes, mState, mIteration,
          calls, passes>>

NullPtr == [ptr |-> "null", text |-> <<>>]
Literal(text) == [ptr |-> "literal", text |-> text]
BufferPtr == [ptr |-> "buffer", text |-> <<>>]

\* a byte of the memory behind sMessageBuffer: any value but NUL
UnknownByte == "?"

\* what lies behind sMessageBuffer up to the first NUL
Adjacent == UNION { [1..k -> {UnknownByte}] : k \in 0..MaxAdjacent }

\* the strings that reading a char const* up to the first NUL may give. A literal gives
\* its text. sMessageBuffer gives its text when a NUL ends it; when the text fills the
\* buffer the '\0' of ~StaticStringBuilder found no room, and the read goes on into the
\* memory behind the buffer
Deref(p, buffer) ==
  IF p.ptr # "buffer"
  THEN {p.text}
  ELSE IF Len(buffer) < MessageBufferSize
       THEN {buffer}
       ELSE { buffer \o tail : tail \in Adjacent }

Line(status, text, n) == [status |-> status, text |-> text, n |-> n]

NotMatched == [fn |-> "none", value |-> FALSE]

\* the globals as their initializers leave them
InitGlobals ==
  /\ sIncludeFilter = <<kFilterWildcard>>
  /\ sExcludeFilter = <<>>
  /\ sFirst = NullTest
  /\ sLast = NullTest
  /\ tests = <<>>
  /\ sError = NullPtr
  /\ sMessageBuffer = <<>>
  /\ sOutput = <<>>
  /\ filterStr = NotCalled
  /\ pc = "idle"
  /\ test = NullTest
  /\ allowed = FALSE
  /\ result = FALSE
  /\ run = 0
  /\ passed = 0
  /\ ignored = 0
  /\ lastSuite = 0
  /\ exitCode = 0
  /\ prevFilterStr = NotCalled

\* a program that declares no parameterized test
NoProduct ==
  /\ mSizes = <<>>
  /\ mState = <<>>
  /\ mIteration = 0
  /\ calls = <<>>
  /\ passes = 0

Init ==
  /\ InitGlobals
  /\ NoProduct
  /\ argFilters = <<>>
  /\ argId = <<>>
  /\ matched = NotMatched

\* the locals and the return value of a RunTests call that has returned are gone, and
\* the lines it wrote are no longer looked at
FrameGone ==
  /\ test' = NullTest
  /\ allowed' = FALSE
  /\ result' = FALSE
  /\ run' = 0
  /\ passed' = 0
  /\ ignored' = 0
  /\ lastSuite' = 0
  /\ sOutput' = <<>>
  /\ exitCode' = 0

\* ---------------------------------------------------------------- SetFilter
\* SetFilter that does not discard the filters of the previous call first
SetFilterKeepsPrevious(s) ==
  /\ pc \in {"idle", "done"}
  /\ filterStr' = s
  /\ IF s = NullStr
     THEN UNCHANGED <<sIncludeFilter, sExcludeFilter>>
     ELSE LET negative == strcspn(s, 0, {kNegativeMarker})
          IN  /\ sIncludeFilter' =
                   IF negative > 0 THEN SubSeq(s, 1, negative) ELSE sIncludeFilter
              /\ sExcludeFilter' =
                   IF At(s, negative) = kNegativeMarker
                   THEN LET negative1 == negative + 1
                            end == negative1 + strcspn(s, negative1, {})
                        IN  SubSeq(s, negative1 + 1, end)
                   ELSE sExcludeFilter
  /\ pc' = "idle"
  /\ FrameGone
  /\ UNCHANGED <<registryVars, sError, sMessageBuffer, harnessVars, productVars>>

\* SetFilter that keeps an empty inclusion text instead of the default
SetFilterNoDefault(s) ==
  /\ pc \in {"idle", "done"}
  /\ filterStr' = s
  /\ IF s = NullStr
     THEN /\ sIncludeFilter' = <<kFilterWildcard>>
          /\ sExcludeFilter' = <<>>
     ELSE LET negative == strcspn(s, 0, {kNegativeMarker})
          IN  /\ sIncludeFilter' = SubSeq(s, 1, negative)
              /\ sExcludeFilter' =
                   IF At(s, negative) = kNegativeMarker
                   THEN LET negative1 == negative + 1
                            end == negative1 + strcspn(s, negative1, {})
                        IN  SubSeq(s, negative1 + 1, end)
                   ELSE <<>>
  /\ pc' = "idle"
  /\ FrameGone
  /\ UNCHANGED <<registryVars, sError, sMessageBuffer, harnessVars, productVars>>

\* SetFilter without sExcludeFilter.clear()
SetFilterNoClear(s) ==
  /\ pc \in {"idle", "done"}
  /\ filterStr' = s
  /\ IF s = NullStr
     THEN /\ sIncludeFilter' = <<kFilterWildcard>>
          /\ sExcludeFilter' = sExcludeFilter
     ELSE LET negative == strcspn(s, 0, {kNegativeMarker})
          IN  /\ sIncludeFilter' =
                   IF negative > 0 THEN SubSeq(s, 1, negative) ELSE <<kFilterWildcard>>
              /\ sExcludeFilter' =
                   IF At(s, negative) = kNegativeMarker
                   THEN LET negative1 == negative + 1
                            end == negative1 + strcspn(s, negative1, {})
                        IN  SubSeq(s, negative1 + 1, end)
                   ELSE sExcludeFilter
  /\ pc' = "idle"
  /\ FrameGone
  /\ UNCHANGED <<registryVars, sError, sMessageBuffer, harnessVars, productVars>>

SetFilter(s) ==
  /\ pc \in {"idle", "done"}
  /\ filterStr' = s
  /\ IF s = NullStr
     THEN /\ sIncludeFilter' = <<kFilterWildcard>>
          /\ sExcludeFilter' = <<>>
     ELSE LET negative == strcspn(s, 0, {kNegativeMarker})
          IN  /\ sIncludeFilter' =
                   IF negative > 0 THEN SubSeq(s, 1, negative) ELSE <<kFilterWildcard>>
              /\ sExcludeFilter' =
                   IF At(s, negative) = kNegativeMarker
                   THEN LET negative1 == negative + 1
                            end == negative1 + strcspn(s, negative1, {})
                        IN  SubSeq(s, negative1 + 1, end)
                   ELSE <<>>
  /\ pc' = "idle"
  /\ FrameGone
  /\ UNCHANGED <<registryVars, sError, sMessageBuffer, harnessVars, productVars>>

\* --------------------------------------------------------------- Test::Test
\* a constructor that links the new Test in front of the list
NewTestAtHead(d) ==
  /\ pc \in {"idle", "done"}
  /\ Len(tests) < MaxTests
  /\ LET this == Len(tests) + 1
         object == [mSuite |-> d.mSuite, mName |-> d.mName, body |-> d.body,
                    mNext |-> sFirst]
     IN  /\ tests' = Append(tests, object)
         /\ sFirst' = this
         /\ sLast' = IF sLast = NullTest THEN this ELSE sLast
  /\ pc' = "idle"
  /\ FrameGone
  /\ UNCHANGED <<filterVars, sError, sMessageBuffer, harnessVars, productVars, prevFilterStr>>

\* Test::Test that does not link the Test constructed before to the new one
NewTestNoLink(d) ==
  /\ pc \in {"idle", "done"}
  /\ Len(tests) < MaxTests
  /\ LET this == Len(tests) + 1
         object == [mSuite |-> d.mSuite, mName |-> d.mName, body |-> d.body,
                    mNext |-> NullTest]
     IN  /\ tests' = Append(tests, object)
         /\ sFirst' = IF sLast = NullTest /\ sFirst = NullTest THEN this ELSE sFirst
         /\ sLast' = this
  /\ pc' = "idle"
  /\ FrameGone
  /\ UNCHANGED <<filterVars, sError, sMessageBuffer, harnessVars, productVars, prevFilterStr>>

NewTest(d) ==
  /\ pc \in {"idle", "done"}
  /\ Len(tests) < MaxTests
  /\ LET this == Len(tests) + 1
         object == [mSuite |-> d.mSuite, mName |-> d.mName, body |-> d.body,
                    mNext |-> NullTest]
         linked == IF sLast # NullTest
                   THEN [tests EXCEPT ![sLast].mNext = this]
                   ELSE tests
     IN  /\ tests' = Append(linked, object)
         /\ sFirst' = IF sLast = NullTest /\ sFirst = NullTest THEN this ELSE sFirst
         /\ sLast' = this
  /\ pc' = "idle"
  /\ FrameGone
  /\ UNCHANGED <<filterVars, sError, sMessageBuffer, harnessVars, productVars, prevFilterStr>>

\* ----------------------------------------------------------------- RunTests
\* the id of the Test object at address t, as the output lines spell it
TestId(t) == CandidateId(SuiteLiteral[tests[t].mSuite], tests[t].mName)

\* int run = 0; ... auto test = sFirst;
RunTestsEnter ==
  /\ pc \in {"idle", "done"}
  /\ run' = 0
  /\ passed' = 0
  /\ ignored' = 0
  /\ lastSuite' = 0
  /\ test' = sFirst
  /\ allowed' = FALSE
  /\ result' = FALSE
  /\ sOutput' = <<>>
  /\ pc' = "loop"
  /\ UNCHANGED <<filterVars, registryVars, sError, sMessageBuffer, exitCode, harnessVars,
                 productVars, prevFilterStr>>

\* while (test) { if (IsAllowed(test->mSuite, test->mName))
RunTestsIsAllowed ==
  /\ pc = "loop"
  /\ test # NullTest
  /\ LET verdict == IsAllowed(sIncludeFilter, sExcludeFilter,
                              SuiteLiteral[tests[test].mSuite], tests[test].mName)
     IN  /\ sMessageBuffer' = verdict.buffer
         /\ allowed' = verdict.value
  /\ pc' = "filtered"
  /\ UNCHANGED <<filterVars, registryVars, sError, sOutput, test, result, run, passed,
                 ignored, lastSuite, exitCode, harnessVars, productVars, prevFilterStr>>

\* RunTests that starts a test whatever IsAllowed returned
RunTestsStartUnfiltered ==
  /\ pc = "filtered"
  /\ LET header == IF tests[test].mSuite # lastSuite
                   THEN <<Line("SUITE", SuiteLiteral[tests[test].mSuite], 0)>>
                   ELSE <<>>
     IN  sOutput' = sOutput \o header \o <<Line("STARTED", TestId(test), 0)>>
  /\ lastSuite' = tests[test].mSuite
  /\ pc' = "running"
  /\ UNCHANGED <<filterVars, registryVars, sError, sMessageBuffer, test, allowed, result,
                 run, passed, ignored, exitCode, harnessVars, productVars, prevFilterStr>>

\* the suite header, when the suite pointer changed, and the STARTED line
RunTestsStart ==
  /\ pc = "filtered"
  /\ allowed
  /\ LET header == IF tests[test].mSuite # lastSuite
                   THEN <<Line("SUITE", SuiteLiteral[tests[test].mSuite], 0)>>
                   ELSE <<>>
     IN  sOutput' = sOutput \o header \o <<Line("STARTED", TestId(test), 0)>>
  /\ lastSuite' = tests[test].mSuite
  /\ pc' = "running"
  /\ UNCHANGED <<filterVars, registryVars, sError, sMessageBuffer, test, allowed, result,
                 run, passed, ignored, exitCode, harnessVars, productVars, prevFilterStr>>

\* RunTests that looks at the suite before the filter: the else branch writes the
\* suite header too
RunTestsIgnoreWritesHeader ==
  /\ pc = "filtered"
  /\ ~allowed
  /\ ignored' = ignored + 1
  /\ sOutput' = sOutput \o (IF tests[test].mSuite # lastSuite
                            THEN <<Line("SUITE", SuiteLiteral[tests[test].mSuite], 0)>>
                            ELSE <<>>)
  /\ lastSuite' = tests[test].mSuite
  /\ test' = tests[test].mNext
  /\ pc' = "loop"
  /\ UNCHANGED <<filterVars, registryVars, sError, sMessageBuffer, allowed,
                 result, run, passed, exitCode, harnessVars, productVars, prevFilterStr>>

\* else { ++ignored; } test = test->mNext;
RunTestsIgnore ==
  /\ pc = "filtered"
  /\ ~allowed
  /\ ignored' = ignored + 1
  /\ test' = tests[test].mNext
  /\ pc' = "loop"
  /\ UNCHANGED <<filterVars, registryVars, sError, sMessageBuffer, sOutput, allowed,
                 result, run, passed, lastSuite, exitCode, harnessVars, productVars, prevFilterStr>>

\* Formatter::Format(str): "Expected: " and str streamed into sMessageBuffer, which
\* takes size characters at most
Format(size, str) == SubSeq(ExpectedPrefix \o str, 1, MinOf(Len(ExpectedPrefix \o str), size))

\* Test::Run without catch (...): what is no xm Exception leaves RunTests
TestRunNoCatchAll ==
  /\ pc = "running"
  /\ LET body == tests[test].body
     IN  /\ result' = (body = "return")
         /\ sMessageBuffer' = CASE body = "assert" -> Format(MessageBufferSize, AssertExpr)
                                [] body = "assert_dtor" -> Format(MessageBufferSize, DtorExpr)
                                [] body = "assert_long" -> Format(MessageBufferSize, LongExpr)
                                [] OTHER -> sMessageBuffer
         /\ sError' = CASE body = "return" -> sError
                        [] body = "assert" -> BufferPtr
                        [] body = "fail" -> Literal(FailMessage)
                        [] body = "throw" -> sError
                        [] body = "failnull" -> NullPtr
                        [] body = "assert_dtor" -> BufferPtr
                        [] body = "assert_long" -> BufferPtr
         /\ pc' = IF body = "throw" THEN "done" ELSE "ran"
  /\ UNCHANGED <<filterVars, registryVars, sOutput, test, allowed, run, passed, ignored,
                 lastSuite, exitCode, harnessVars, productVars, prevFilterStr>>

\* bool result = test->Run(): RunInternal and the two catch clauses. A failing check
\* formats its message into sMessageBuffer and throws the pointer to it; a passing check
\* made by a destructor while the exception unwinds the body formats its own message
\* over it
TestRun ==
  /\ pc = "running"
  /\ LET body == tests[test].body
     IN  /\ result' = (body = "return")
         /\ sMessageBuffer' = CASE body = "assert" -> Format(MessageBufferSize, AssertExpr)
                                [] body = "assert_dtor" -> Format(MessageBufferSize, DtorExpr)
                                [] body = "assert_long" -> Format(MessageBufferSize, LongExpr)
                                [] OTHER -> sMessageBuffer
         /\ sError' = CASE body = "return" -> sError
                        [] body = "assert" -> BufferPtr
                        [] body = "fail" -> Literal(FailMessage)
                        [] body = "throw" -> Literal(BadExceptionMessage)
                        [] body = "failnull" -> NullPtr
                        [] body = "assert_dtor" -> BufferPtr
                        [] body = "assert_long" -> BufferPtr
  /\ pc' = "ran"
  /\ UNCHANGED <<filterVars, registryVars, sOutput, test, allowed, run, passed, ignored,
                 lastSuite, exitCode, harnessVars, productVars, prevFilterStr>>

\* RunTests that writes the message of a failed test before its result line
RunTestsReportMessageFirst ==
  /\ pc = "ran"
  /\ LET status == IF result THEN "OK" ELSE "FAILED"
     IN  IF ~result /\ sError # NullPtr
         THEN \E text \in Deref(sError, sMessageBuffer) :
                sOutput' = sOutput \o <<Line("", text, 0), Line(status, TestId(test), 0)>>
         ELSE sOutput' = Append(sOutput, Line(status, TestId(test), 0))
  /\ passed' = IF result THEN passed + 1 ELSE passed
  /\ sError' = IF ~result /\ sError # NullPtr THEN NullPtr ELSE sError
  /\ run' = run + 1
  /\ test' = tests[test].mNext
  /\ pc' = "loop"
  /\ UNCHANGED <<filterVars, registryVars, sMessageBuffer, allowed, result, ignored,
                 lastSuite, exitCode, harnessVars, productVars, prevFilterStr>>

\* RunTests with ++run inside the if (result) branch
RunTestsReportCountsPassedOnly ==
  /\ pc = "ran"
  /\ LET status == IF result THEN "OK" ELSE "FAILED"
     IN  IF ~result /\ sError # NullPtr
         THEN \E text \in Deref(sError, sMessageBuffer) :
                sOutput' = sOutput \o <<Line(status, TestId(test), 0), Line("", text, 0)>>
         ELSE sOutput' = Append(sOutput, Line(status, TestId(test), 0))
  /\ passed' = IF result THEN passed + 1 ELSE passed
  /\ sError' = IF ~result /\ sError # NullPtr THEN NullPtr ELSE sError
  /\ run' = IF result THEN run + 1 ELSE run
  /\ test' = tests[test].mNext
  /\ pc' = "loop"
  /\ UNCHANGED <<filterVars, registryVars, sMessageBuffer, allowed, result, ignored,
                 lastSuite, exitCode, harnessVars, productVars, prevFilterStr>>

\* the OK / FAILED line, the message of a failure, the counters, test = test->mNext
RunTestsReport ==
  /\ pc = "ran"
  /\ LET status == IF result THEN "OK" ELSE "FAILED"
     IN  IF ~result /\ sError # NullPtr
         THEN \E text \in Deref(sError, sMessageBuffer) :
                sOutput' = sOutput \o <<Line(status, TestId(test), 0), Line("", text, 0)>>
         ELSE sOutput' = Append(sOutput, Line(status, TestId(test), 0))
  /\ passed' = IF result THEN passed + 1 ELSE passed
  /\ sError' = IF ~result /\ sError # NullPtr THEN NullPtr ELSE sError
  /\ run' = run + 1
  /\ test' = tests[test].mNext
  /\ pc' = "loop"
  /\ UNCHANGED <<filterVars, registryVars, sMessageBuffer, allowed, result, ignored,
                 lastSuite, exitCode, harnessVars, productVars, prevFilterStr>>

\* RunTests that returns the number of tests run
RunTestsFinishReturnsRun ==
  /\ pc = "loop"
  /\ test = NullTest
  /\ LET endResult == (passed = run)
         ignoredLine == IF ignored > 0 THEN <<Line("TALLY", <<"i">>, ignored)>> ELSE <<>>
     IN  sOutput' = sOutput
                    \o <<Line("SUITE", <<>>, 0), Line("TALLY", <<"r">>, run),
                         Line("TALLY", <<"p">>, passed)>>
                    \o ignoredLine
                    \o <<Line(IF endResult THEN "OK" ELSE "FAILED", <<"F">>, 0)>>
  /\ exitCode' = run
  /\ pc' = "done"
  /\ UNCHANGED <<filterVars, registryVars, sError, sMessageBuffer, frameVars, harnessVars,
                 productVars, prevFilterStr>>

\* the tally lines and return run - passed
RunTestsFinish ==
  /\ pc = "loop"
  /\ test = NullTest
  /\ LET endResult == (passed = run)
         ignoredLine == IF ignored > 0 THEN <<Line("TALLY", <<"i">>, ignored)>> ELSE <<>>
     IN  sOutput' = sOutput
                    \o <<Line("SUITE", <<>>, 0), Line("TALLY", <<"r">>, run),
                         Line("TALLY", <<"p">>, passed)>>
                    \o ignoredLine
                    \o <<Line(IF endResult THEN "OK" ELSE "FAILED", <<"F">>, 0)>>
  /\ exitCode' = run - passed
  /\ pc' = "done"
  /\ UNCHANGED <<filterVars, registryVars, sError, sMessageBuffer, frameVars, harnessVars,
                 productVars, prevFilterStr>>

Next ==
  \/ \E s \in FilterStrs \cup {NullStr} : SetFilter(s) /\ UNCHANGED prevFilterStr
  \/ \E d \in Decls : NewTest(d)
  \/ RunTestsEnter
  \/ RunTestsIsAllowed
  \/ RunTestsStart
  \/ RunTestsIgnore
  \/ TestRun
  \/ RunTestsReport
  \/ RunTestsFinish

Spec == Init /\ [][Next]_vars

\* ------------------------------------------- RunTests over failing tests
\* tests that pass, fail without a message and fail a check, one of them in a body that
\* has an object with a checking destructor, one over an expression that fills the buffer
ReportDecls ==
  { [mSuite |-> 1, mName |-> <<"P">>, body |-> "return"],
    [mSuite |-> 1, mName |-> <<"N">>, body |-> "failnull"],
    [mSuite |-> 2, mName |-> <<"A">>, body |-> "assert"],
    [mSuite |-> 2, mName |-> <<"D">>, body |-> "assert_dtor"],
    [mSuite |-> 2, mName |-> <<"L">>, body |-> "assert_long"] }

\* the filter the program may set: the tests of suite Bar
ReportFilterStrs == { <<"B", "a", "r", "*">> }

NextReport ==
  \/ \E s \in ReportFilterStrs : SetFilter(s) /\ UNCHANGED prevFilterStr
  \/ \E d \in ReportDecls : NewTest(d)
  \/ RunTestsEnter
  \/ RunTestsIsAllowed
  \/ RunTestsStart
  \/ RunTestsIgnore
  \/ TestRun
  \/ RunTestsReport
  \/ RunTestsFinish

SpecReport == Init /\ [][NextReport]_vars

\* ------------------------------------------------------- SetFilter called twice
\* a caller that does nothing but set filters, remembering what it passed before
CallSetFilter(s) ==
  /\ SetFilter(s)
  /\ prevFilterStr' = filterStr

NextFilter == \E s \in FilterStrs \cup {NullStr} : CallSetFilter(s)

SpecFilter == Init /\ [][NextFilter]_vars

\* ----------------------------------------------------------- matcher harness
\* the matcher called directly, as the self test XM_TEST(Xm, FilterMatch) calls it
InitMatch ==
  /\ InitGlobals
  /\ NoProduct
  /\ argFilters \in FilterLists
  /\ argId \in Ids
  /\ matched = NotMatched

HarnessFrame ==
  UNCHANGED <<sIncludeFilter, sExcludeFilter, sFirst, sLast, tests, sError,
              sMessageBuffer, sOutput, filterStr, pc, frameVars, exitCode, argFilters,
              argId, productVars, prevFilterStr>>

\* one filter, holding no separator, against the id
CallFilterMatch ==
  /\ matched = NotMatched
  /\ \A k \in 1..Len(argFilters) : argFilters[k] # kListSeparator
  /\ matched' = [fn |-> "FilterMatch",
                 value |-> FilterMatch(argFilters, 0, Len(argFilters), argId, 0, Len(argId))]
  /\ HarnessFrame

\* a separator-delimited list of filters against the id
CallFiltersMatch ==
  /\ matched = NotMatched
  /\ matched' = [fn |-> "FiltersMatch",
                 value |-> FiltersMatch(argFilters, argId, 0, Len(argId))]
  /\ HarnessFrame

NextMatch == CallFilterMatch \/ CallFiltersMatch

SpecMatch == InitMatch /\ [][NextMatch]_vars

\* ------------------------------------------- parameterized tests (XM_TEST_C)
IdBufferSize == 1024

\* FilterMatch(std::string_view filter, std::string_view id) of the revision that has
\* parameterized tests
RECURSIVE FilterMatchView(_, _)

\* FilterMatch whose wildcard stands for one character or more
FilterMatchViewWildcardTakesOne(filter, id) ==
  IF id = <<>>
  THEN \A k \in 1..Len(filter) : filter[k] = kFilterWildcard
  ELSE IF filter = <<>>
       THEN FALSE
       ELSE IF Head(filter) = Head(id)
            THEN FilterMatchView(Tail(filter), Tail(id))
            ELSE IF Head(filter) = kFilterWildcard
                 THEN FilterMatchView(Tail(filter), Tail(id))
                      \/ FilterMatchView(filter, Tail(id))
                 ELSE FALSE

FilterMatchView(filter, id) ==
  IF id = <<>>
  THEN \A k \in 1..Len(filter) : filter[k] = kFilterWildcard
  ELSE IF filter = <<>>
       THEN FALSE
       ELSE IF Head(filter) = Head(id)
            THEN FilterMatchView(Tail(filter), Tail(id))
            ELSE IF Head(filter) = kFilterWildcard
                 THEN FilterMatchView(Tail(filter), id) \/ FilterMatchView(filter, Tail(id))
                 ELSE FALSE

\* FiltersMatch(std::string const& filters, std::string_view id) of that revision
RECURSIVE FiltersMatchView(_, _)
FiltersMatchView(filter, id) ==
  IF filter = <<>>
  THEN FALSE
  ELSE LET end == strcspn(filter, 0, {kListSeparator})
       IN  IF FilterMatchView(SubSeq(filter, 1, end), id)
           THEN TRUE
           ELSE FiltersMatchView(
                  SubSeq(filter, end + (IF end # Len(filter) THEN 1 ELSE 0) + 1, Len(filter)),
                  id)

\* IsAllowed(std::string_view id) of that revision
IsAllowedView(include, exclude, id) ==
  FiltersMatchView(include, id) /\ ~FiltersMatchView(exclude, id)

\* operator<< of an unsigned number
RECURSIVE Decimal(_)
Decimal(n) ==
  LET digit == <<"0", "1", "2", "3", "4", "5", "6", "7", "8", "9">>
  IN  IF n < 10 THEN <<digit[n + 1]>> ELSE Decimal(n \div 10) \o <<digit[(n % 10) + 1]>>

\* the cartesian sets of the space: XM_CARTESIAN_SET(kNames, "Alice", "Bob", "Charlie"),
\* XM_CARTESIAN_SET(kAges, 8, 21, 50) and further sets, each cut to its size
SetName(i) ==
  IF i = 1 THEN <<"k", "N", "a", "m", "e", "s">>
  ELSE IF i = 2 THEN <<"k", "A", "g", "e", "s">>
  ELSE <<"k">> \o Decimal(i)

SetElement(i, index) ==
  IF i = 1 /\ index < 3 THEN <<"Alice", "Bob", "Charlie">>[index + 1]
  ELSE IF i = 2 /\ index < 3 THEN <<"8", "21", "50">>[index + 1]
  ELSE <<i, index>>

\* the sizes the sets of a space may have: GetElementSizes
AxisSizes == UNION { [1..k -> 1..MaxAxisSize] : k \in 1..MaxAxes }

\* the XM_TEST_C object of the program: suite, name and a body that returns
ProductTest == [mSuite |-> 2, mName |-> <<"A">>, body |-> "return", mNext |-> NullTest]

\* the do-while loop of Advance from axis i on (i counted from 1)
RECURSIVE AdvanceFrom(_, _, _)
AdvanceFrom(sizes, state, i) ==
  LET incremented == state[i] + 1
  IN  IF incremented < sizes[i]
      THEN [mState |-> [state EXCEPT ![i] = incremented], value |-> TRUE]
      ELSE IF i + 1 <= Len(sizes)
           THEN AdvanceFrom(sizes, [state EXCEPT ![i] = 0], i + 1)
           ELSE [mState |-> [state EXCEPT ![i] = 0], value |-> FALSE]

\* Advance that starts at the last axis, so that the last set varies fastest
AdvanceLastAxisFirst(sizes, state, iteration) ==
  LET Reverse(x) == [i \in 1..Len(x) |-> x[Len(x) + 1 - i]]
      loop == AdvanceFrom(Reverse(sizes), Reverse(state), 1)
  IN  [mState |-> Reverse(loop.mState), mIteration |-> iteration + 1, value |-> loop.value]

\* Advance that leaves the indices of the last combination when it returns false
AdvanceKeepsLastCombination(sizes, state, iteration) ==
  LET loop == AdvanceFrom(sizes, state, 1)
  IN  [mState |-> IF loop.value THEN loop.mState ELSE state,
       mIteration |-> iteration + 1, value |-> loop.value]

\* Advance that steps through the first set only and reports the end when it wraps
AdvanceFirstAxisOnly(sizes, state, iteration) ==
  LET incremented == state[1] + 1
  IN  [mState |-> [state EXCEPT ![1] = IF incremented < sizes[1] THEN incremented ELSE 0],
       mIteration |-> iteration + 1, value |-> incremented < sizes[1]]

\* Advance that increments the index of the first set and never carries
AdvanceWithoutCarry(sizes, state, iteration) ==
  [mState |-> [state EXCEPT ![1] = state[1] + 1], mIteration |-> iteration + 1,
   value |-> state[1] + 1 < sizes[1]]

\* bool CartesianProductCore::Advance(): the state and counter it leaves, and its value;
\* the uint32_t counter is MaxPasses times the size of the space at most and never wraps
Advance(sizes, state, iteration) ==
  LET loop == AdvanceFrom(sizes, state, 1)
  IN  [mState |-> loop.mState, mIteration |-> iteration + 1, value |-> loop.value]

\* Reset that zeroes the index of the first set only
ResetFirstAxisOnly(state, iteration) ==
  [mState |-> [state EXCEPT ![1] = 0], mIteration |-> iteration]

\* void CartesianProductCore::Reset(): the state and counter it leaves
Reset(state, iteration) ==
  [mState |-> [i \in 1..Len(state) |-> 0], mIteration |-> iteration]

\* uint32_t CartesianProductCoreCore::GetIteration()
GetIteration(iteration) == iteration

\* CartesianProduct::FormatState: '_' name '[' index ']' for every set, in order
RECURSIVE FormatStateFrom(_, _)
FormatStateFrom(state, i) ==
  IF i > Len(state)
  THEN <<>>
  ELSE <<"_">> \o SetName(i) \o <<"[">> \o Decimal(state[i]) \o <<"]">>
       \o FormatStateFrom(state, i + 1)

\* FormatState that writes the names of the sets without the indices
FormatStateNamesOnly(state) ==
  IF state = <<>> THEN <<>> ELSE <<"_">> \o SetName(1) \o <<"_">> \o SetName(Len(state))

FormatState(state) == FormatStateFrom(state, 1)

\* CartesianProduct::GetProductSet: of every set the element its index selects
GetProductSet(state) == [i \in 1..Len(state) |-> SetElement(i, state[i])]

\* XM_TEST_C::GetId streamed into idBuffer: Test::GetId, then FormatState
GetId(t, state) ==
  LET text == CandidateId(SuiteLiteral[tests[t].mSuite], tests[t].mName) \o FormatState(state)
  IN  SubSeq(text, 1, MinOf(Len(text), IdBufferSize))

\* a program with one XM_TEST_C test over a space of sets of some sizes
InitProduct ==
  /\ sIncludeFilter = <<kFilterWildcard>>
  /\ sExcludeFilter = <<>>
  /\ sFirst = 1
  /\ sLast = 1
  /\ tests = <<ProductTest>>
  /\ sError = NullPtr
  /\ sMessageBuffer = <<>>
  /\ sOutput = <<>>
  /\ filterStr = NotCalled
  /\ pc = "idle"
  /\ test = NullTest
  /\ allowed = FALSE
  /\ result = FALSE
  /\ run = 0
  /\ passed = 0
  /\ ignored = 0
  /\ lastSuite = 0
  /\ exitCode = 0
  /\ prevFilterStr = NotCalled
  /\ argFilters = <<>>
  /\ argId = <<>>
  /\ matched = NotMatched
  /\ mSizes \in AxisSizes
  /\ mState = [i \in 1..Len(mSizes) |-> 0]
  /\ mIteration = 0
  /\ calls = <<>>
  /\ passes = 0

\* int run = 0; ... auto test = sFirst;
ProductRunTestsEnter ==
  /\ pc \in {"idle", "done"}
  /\ passes < MaxPasses
  /\ run' = 0
  /\ passed' = 0
  /\ ignored' = 0
  /\ lastSuite' = 0
  /\ test' = sFirst
  /\ allowed' = FALSE
  /\ result' = FALSE
  /\ sOutput' = <<>>
  /\ calls' = <<>>
  /\ pc' = "loop"
  /\ UNCHANGED <<filterVars, registryVars, sError, sMessageBuffer, exitCode, harnessVars,
                 prevFilterStr, mSizes, mState, mIteration, passes>>

\* one round of while (test) up to ++run or ++ignored: GetId, IsAllowed, the header and
\* STARTED lines, RunTest(*test), which calls the body with GetProductSet() and
\* GetIteration(), and the result line
ProductVisit ==
  /\ pc = "loop"
  /\ test # NullTest
  /\ LET id == GetId(test, mState)
         suite == tests[test].mSuite
         header == IF suite # lastSuite THEN <<Line("SUITE", SuiteLiteral[suite], 0)>> ELSE <<>>
     IN  /\ allowed' = IsAllowedView(sIncludeFilter, sExcludeFilter, id)
         /\ IF allowed'
            THEN /\ sOutput' = sOutput \o header
                                \o <<Line("STARTED", id, 0), Line("OK", id, 0)>>
                 /\ lastSuite' = suite
                 /\ calls' = Append(calls, [op |-> "RunTest",
                                            mState |-> mState,
                                            xmProductSet |-> GetProductSet(mState),
                                            xmIteration |-> GetIteration(mIteration)])
                 /\ result' = TRUE
                 /\ passed' = passed + 1
                 /\ run' = run + 1
                 /\ UNCHANGED ignored
            ELSE /\ ignored' = ignored + 1
                 /\ UNCHANGED <<sOutput, lastSuite, calls, result, passed, run>>
  /\ pc' = "visited"
  /\ UNCHANGED <<filterVars, registryVars, sError, sMessageBuffer, test, exitCode,
                 harnessVars, prevFilterStr, mSizes, mState, mIteration, passes>>

\* test = test->GetNext(): Advance() ? this : (Reset(), Test::GetNext())
ProductGetNext ==
  /\ pc = "visited"
  /\ LET advanced == Advance(mSizes, mState, mIteration)
         reset == Reset(advanced.mState, advanced.mIteration)
     IN  /\ calls' = Append(calls, [op |-> "Advance",
                                    mState |-> advanced.mState,
                                    xmProductSet |-> <<>>,
                                    xmIteration |-> advanced.mIteration,
                                    value |-> advanced.value])
         /\ IF advanced.value
            THEN /\ mState' = advanced.mState
                 /\ mIteration' = advanced.mIteration
                 /\ test' = test
            ELSE /\ mState' = reset.mState
                 /\ mIteration' = reset.mIteration
                 /\ test' = tests[test].mNext
  /\ pc' = "loop"
  /\ UNCHANGED <<filterVars, registryVars, sError, sMessageBuffer, sOutput, allowed, result,
                 run, passed, ignored, lastSuite, exitCode, harnessVars, prevFilterStr,
                 mSizes, passes>>

\* the tally lines and return run - passed
ProductRunTestsFinish ==
  /\ pc = "loop"
  /\ test = NullTest
  /\ LET endResult == (passed = run)
         ignoredLine == IF ignored > 0 THEN <<Line("TALLY", <<"i">>, ignored)>> ELSE <<>>
     IN  sOutput' = sOutput
                    \o <<Line("SUITE", <<>>, 0), Line("TALLY", <<"r">>, run),
                         Line("TALLY", <<"p">>, passed)>>
                    \o ignoredLine
                    \o <<Line(IF endResult THEN "OK" ELSE "FAILED", <<"F">>, 0)>>
  /\ exitCode' = run - passed
  /\ passes' = passes + 1
  /\ pc' = "done"
  /\ UNCHANGED <<filterVars, registryVars, sError, sMessageBuffer, frameVars, harnessVars,
                 prevFilterStr, mSizes, mState, mIteration, calls>>

NextProduct ==
  \/ ProductRunTestsEnter
  \/ ProductVisit
  \/ ProductGetNext
  \/ ProductRunTestsFinish

SpecProduct == InitProduct /\ [][NextProduct]_vars

\* ------------------------------------------- CartesianProduct called directly
\* a program that holds a CartesianProduct over a space of non-empty sets and calls
\* Advance(), Reset() and GetProductSet() on it in any order
InitCursor ==
  /\ InitGlobals
  /\ argFilters = <<>>
  /\ argId = <<>>
  /\ matched = NotMatched
  /\ mSizes \in AxisSizes
  /\ mState = [i \in 1..Len(mSizes) |-> 0]
  /\ mIteration = 0
  /\ calls = <<>>
  /\ passes = 0

CursorFrame ==
  UNCHANGED <<sIncludeFilter, sExcludeFilter, sFirst, sLast, tests, sError,
              sMessageBuffer, sOutput, filterStr, pc, frameVars, exitCode, harnessVars,
              prevFilterStr, mSizes, passes>>

CallAdvance ==
  /\ Len(calls) < MaxCalls
  /\ LET advanced == Advance(mSizes, mState, mIteration)
     IN  /\ mState' = advanced.mState
         /\ mIteration' = advanced.mIteration
         /\ calls' = Append(calls, [op |-> "Advance",
                                    mState |-> advanced.mState,
                                    xmProductSet |-> <<>>,
                                    xmIteration |-> advanced.mIteration,
                                    value |-> advanced.value])
  /\ CursorFrame

CallReset ==
  /\ Len(calls) < MaxCalls
  /\ LET reset == Reset(mState, mIteration)
     IN  /\ mState' = reset.mState
         /\ mIteration' = reset.mIteration
         /\ calls' = Append(calls, [op |-> "Reset",
                                    mState |-> reset.mState,
                                    xmProductSet |-> <<>>,
                                    xmIteration |-> reset.mIteration,
                                    value |-> FALSE])
  /\ CursorFrame

CallGetProductSet ==
  /\ Len(calls) < MaxCalls
  /\ calls' = Append(calls, [op |-> "GetProductSet",
                             mState |-> mState,
                             xmProductSet |-> GetProductSet(mState),
                             xmIteration |-> GetIteration(mIteration),
                             value |-> FALSE])
  /\ UNCHANGED <<mState, mIteration>>
  /\ CursorFrame

NextCursor == CallAdvance \/ CallReset \/ CallGetProductSet

SpecCursor == InitCursor /\ [][NextCursor]_vars

\* ------------------------------- RunTests over plain and parameterized tests
\* the filters the program may set before a pass
ParamFilterStrs ==
  { <<"*", "k", "A", "g", "e", "s", "[", "1", "]", "*">>,
    <<"*", "k", "N", "a", "m", "e", "s", "[", "0", "]", "*">>,
    <<"F", "o", "o", "T", "e", "s", "t", "*">>,
    <<"-", "B", "a", "r", "*">> }

\* the sizes the sets of a space may have when sets may be empty:
\* std::make_pair("kEmpty", std::array<int, 0>{}) is a set GetElementSizes gives size 0
ParamAxisSizes == UNION { [1..k -> 0..MaxAxisSize] : k \in 1..MaxAxes }

\* the XM_TEST object of the program
PlainTest == [mSuite |-> 1, mName |-> <<"B">>, body |-> "return", mNext |-> NullTest]

\* the XM_TEST_C object of the program, which has a mCombinationGenerator
ParamTest == [mSuite |-> 2, mName |-> <<"A">>, body |-> "return", mNext |-> NullTest,
              mCombinationGenerator |-> TRUE]

\* whether a test overrides Run, GetId and GetNext as XM_TEST_C does
IsParameterized(t) == "mCombinationGenerator" \in DOMAIN tests[t]

\* the two orders in which the constructors of the two tests may run
ParamRegistries ==
  { <<[ParamTest EXCEPT !.mNext = 2], PlainTest>>,
    <<[PlainTest EXCEPT !.mNext = 2], ParamTest>> }

\* what reading begin(set)[index] gives when index is no element of the set
OutOfRange == "out of range"

\* CartesianProduct::GetProductSet over sets that may be empty
GetProductSetOf(sizes, state) ==
  [i \in 1..Len(state) |-> IF state[i] < sizes[i] THEN SetElement(i, state[i]) ELSE OutOfRange]

\* test->GetId(idStream) through the vtable: Test::GetId or XM_TEST_C::GetId
GetIdOf(t, state) ==
  IF IsParameterized(t)
  THEN GetId(t, state)
  ELSE LET text == CandidateId(SuiteLiteral[tests[t].mSuite], tests[t].mName)
       IN  SubSeq(text, 1, MinOf(Len(text), IdBufferSize))

\* a program with one XM_TEST and one XM_TEST_C test
InitParam ==
  /\ sIncludeFilter = <<kFilterWildcard>>
  /\ sExcludeFilter = <<>>
  /\ sFirst = 1
  /\ sLast = 2
  /\ tests \in ParamRegistries
  /\ sError = NullPtr
  /\ sMessageBuffer = <<>>
  /\ sOutput = <<>>
  /\ filterStr = NotCalled
  /\ pc = "idle"
  /\ test = NullTest
  /\ allowed = FALSE
  /\ result = FALSE
  /\ run = 0
  /\ passed = 0
  /\ ignored = 0
  /\ lastSuite = 0
  /\ exitCode = 0
  /\ prevFilterStr = NotCalled
  /\ argFilters = <<>>
  /\ argId = <<>>
  /\ matched = NotMatched
  /\ mSizes \in ParamAxisSizes
  /\ mState = [i \in 1..Len(mSizes) |-> 0]
  /\ mIteration = 0
  /\ calls = <<>>
  /\ passes = 0

\* SetFilter called once, before a pass
ParamSetFilter ==
  /\ filterStr = NotCalled
  /\ \E s \in ParamFilterStrs : SetFilter(s)
  /\ UNCHANGED prevFilterStr

ParamVisitFrame ==
  UNCHANGED <<filterVars, registryVars, sError, test, exitCode,
              harnessVars, prevFilterStr, mSizes, mState, mIteration, passes>>

\* the number of product sets of a space
RECURSIVE Combinations(_)
Combinations(sizes) ==
  IF sizes = <<>> THEN 1 ELSE Head(sizes) * Combinations(Tail(sizes))

\* the expression of the check XM_ASSERT_TRUE(xmIteration < N) in the body "ordinal",
\* N being the number of product sets of the space
OrdinalExpr == <<"i">>

\* one round of while (test) up to ++run or ++ignored, for a test of either kind; where
\* Run() reads an element that its set does not have, the read either ends the program
\* or gives some value with which the body runs. The body "ordinal" checks that
\* xmIteration is below the number of product sets; the check formats its message, and
\* when it fails RunTest stores the message in sError, which the round writes and clears;
\* the body "throw" throws what is no xm Exception, which catch (...) of RunTest answers
\* with its own message
ParamVisit ==
  /\ pc = "loop"
  /\ test # NullTest
  /\ \E id \in {GetIdOf(test, mState)} :
     \E isAllowed \in {IsAllowedView(sIncludeFilter, sExcludeFilter, id)} :
     LET suite == tests[test].mSuite
         header == IF suite # lastSuite THEN <<Line("SUITE", SuiteLiteral[suite], 0)>> ELSE <<>>
         visit == [op |-> "Visit", test |-> test, id |-> id, mState |-> mState,
                   allowed |-> isAllowed]
         productSet == IF IsParameterized(test) THEN GetProductSetOf(mSizes, mState) ELSE <<>>
         call == [op |-> "RunTest", test |-> test, mState |-> mState,
                  xmProductSet |-> productSet,
                  xmIteration |-> IF IsParameterized(test) THEN GetIteration(mIteration) ELSE 0]
         outOfRange == IsParameterized(test) /\ \E i \in 1..Len(mState) : mState[i] >= mSizes[i]
         checks == tests[test].body = "ordinal"
         throws == tests[test].body = "throw"
         bodyResult == ~throws /\ (~checks \/ call.xmIteration < Combinations(mSizes))
         message == IF throws THEN BadExceptionMessage
                    ELSE Format(MessageBufferSize, OrdinalExpr)
     IN  /\ allowed' = visit.allowed
         /\ IF allowed'
            THEN \/ /\ sOutput' = sOutput \o header
                                   \o <<Line("STARTED", id, 0)>>
                                   \o (IF bodyResult
                                       THEN <<Line("OK", id, 0)>>
                                       ELSE <<Line("FAILED", id, 0), Line("", message, 0)>>)
                    /\ sMessageBuffer' = IF checks THEN message ELSE sMessageBuffer
                    /\ lastSuite' = suite
                    /\ calls' = calls \o <<visit, call>>
                    /\ result' = bodyResult
                    /\ passed' = IF bodyResult THEN passed + 1 ELSE passed
                    /\ run' = run + 1
                    /\ pc' = "visited"
                    /\ UNCHANGED ignored
                 \/ /\ outOfRange
                    /\ sOutput' = sOutput \o header \o <<Line("STARTED", id, 0)>>
                    /\ lastSuite' = suite
                    /\ calls' = calls \o <<visit, [call EXCEPT !.op = "Crash"]>>
                    /\ pc' = "crashed"
                    /\ UNCHANGED <<sMessageBuffer, result, passed, run, ignored>>
            ELSE /\ ignored' = ignored + 1
                 /\ calls' = Append(calls, visit)
                 /\ pc' = "visited"
                 /\ UNCHANGED <<sMessageBuffer, sOutput, lastSuite, result, passed, run>>
  /\ ParamVisitFrame

\* XM_TEST_C::GetNext that goes on to the next test whatever Advance() returns
ParamGetNextIgnoresAdvance ==
  /\ pc = "visited"
  /\ IF IsParameterized(test)
     THEN LET advanced == Advance(mSizes, mState, mIteration)
          IN  /\ calls' = Append(calls, [op |-> "Advance",
                                         test |-> test,
                                         mState |-> advanced.mState,
                                         xmProductSet |-> <<>>,
                                         xmIteration |-> advanced.mIteration,
                                         value |-> advanced.value])
              /\ mState' = advanced.mState
              /\ mIteration' = advanced.mIteration
     ELSE UNCHANGED <<calls, mState, mIteration>>
  /\ test' = tests[test].mNext
  /\ pc' = "loop"
  /\ UNCHANGED <<filterVars, registryVars, sError, sMessageBuffer, sOutput, allowed, result,
                 run, passed, ignored, lastSuite, exitCode, harnessVars, prevFilterStr,
                 mSizes, passes>>

\* XM_TEST_C::GetNext that leaves the generator alone after an ignored visit
ParamGetNextSkipsIgnored ==
  /\ pc = "visited"
  /\ IF IsParameterized(test) /\ allowed
     THEN LET advanced == Advance(mSizes, mState, mIteration)
              reset == Reset(advanced.mState, advanced.mIteration)
          IN  /\ calls' = Append(calls, [op |-> "Advance",
                                         test |-> test,
                                         mState |-> advanced.mState,
                                         xmProductSet |-> <<>>,
                                         xmIteration |-> advanced.mIteration,
                                         value |-> advanced.value])
              /\ IF advanced.value
                 THEN /\ mState' = advanced.mState
                      /\ mIteration' = advanced.mIteration
                      /\ test' = test
                 ELSE /\ mState' = reset.mState
                      /\ mIteration' = reset.mIteration
                      /\ test' = tests[test].mNext
     ELSE /\ test' = tests[test].mNext
          /\ UNCHANGED <<calls, mState, mIteration>>
  /\ pc' = "loop"
  /\ UNCHANGED <<filterVars, registryVars, sError, sMessageBuffer, sOutput, allowed, result,
                 run, passed, ignored, lastSuite, exitCode, harnessVars, prevFilterStr,
                 mSizes, passes>>

\* test = test->GetNext() through the vtable, after the if/else of the round:
\* Test::GetNext, or XM_TEST_C::GetNext, Advance() ? this : (Reset(), Test::GetNext())
ParamGetNext ==
  /\ pc = "visited"
  /\ IF IsParameterized(test)
     THEN LET advanced == Advance(mSizes, mState, mIteration)
              reset == Reset(advanced.mState, advanced.mIteration)
          IN  /\ calls' = Append(calls, [op |-> "Advance",
                                         test |-> test,
                                         mState |-> advanced.mState,
                                         xmProductSet |-> <<>>,
                                         xmIteration |-> advanced.mIteration,
                                         value |-> advanced.value])
              /\ IF advanced.value
                 THEN /\ mState' = advanced.mState
                      /\ mIteration' = advanced.mIteration
                      /\ test' = test
                 ELSE /\ mState' = reset.mState
                      /\ mIteration' = reset.mIteration
                      /\ test' = tests[test].mNext
     ELSE /\ test' = tests[test].mNext
          /\ UNCHANGED <<calls, mState, mIteration>>
  /\ pc' = "loop"
  /\ UNCHANGED <<filterVars, registryVars, sError, sMessageBuffer, sOutput, allowed, result,
                 run, passed, ignored, lastSuite, exitCode, harnessVars, prevFilterStr,
                 mSizes, passes>>

NextParam ==
  \/ ParamSetFilter
  \/ ProductRunTestsEnter
  \/ ParamVisit
  \/ ParamGetNext
  \/ ProductRunTestsFinish

SpecParam == InitParam /\ [][NextParam]_vars

\* --------------------------------------------------- RunTests called again
\* the registries of a program whose XM_TEST_C body returns or checks xmIteration
TwiceRegistries ==
  ParamRegistries
  \cup { <<[ParamTest EXCEPT !.mNext = 2, !.body = "ordinal"], PlainTest>>,
         <<[PlainTest EXCEPT !.mNext = 2], [ParamTest EXCEPT !.body = "ordinal"]>> }

\* a program with one XM_TEST and one XM_TEST_C test over non-empty sets
InitTwice ==
  /\ sIncludeFilter = <<kFilterWildcard>>
  /\ sExcludeFilter = <<>>
  /\ sFirst = 1
  /\ sLast = 2
  /\ tests \in TwiceRegistries
  /\ sError = NullPtr
  /\ sMessageBuffer = <<>>
  /\ sOutput = <<>>
  /\ filterStr = NotCalled
  /\ pc = "idle"
  /\ test = NullTest
  /\ allowed = FALSE
  /\ result = FALSE
  /\ run = 0
  /\ passed = 0
  /\ ignored = 0
  /\ lastSuite = 0
  /\ exitCode = 0
  /\ prevFilterStr = NotCalled
  /\ argFilters = <<>>
  /\ argId = <<>>
  /\ matched = NotMatched
  /\ mSizes \in AxisSizes
  /\ mState = [i \in 1..Len(mSizes) |-> 0]
  /\ mIteration = 0
  /\ calls = <<>>
  /\ passes = 0

\* what the caller keeps of a RunTests call that has returned: the ids visited, the
\* counts of the tally, the value returned, and the registry and filters it left
PassSummary ==
  LET IsVisitCall(call) == call.op = "Visit"
      visits == SelectSeq(calls, IsVisitCall)
  IN  [op |-> "Pass",
       ids |-> [k \in 1..Len(visits) |-> visits[k].id],
       run |-> run, passed |-> passed, ignored |-> ignored, exitCode |-> exitCode,
       registry |-> <<sFirst, sLast, tests>>,
       filters |-> <<sIncludeFilter, sExcludeFilter>>]

\* RunTests called by a program that calls it again right after it returned, keeping
\* what the call before did
TwiceRunTestsEnter ==
  /\ pc \in {"idle", "done"}
  /\ passes < MaxPasses
  /\ run' = 0
  /\ passed' = 0
  /\ ignored' = 0
  /\ lastSuite' = 0
  /\ test' = sFirst
  /\ allowed' = FALSE
  /\ result' = FALSE
  /\ sOutput' = <<>>
  /\ calls' = IF pc = "done" THEN <<PassSummary>> ELSE <<>>
  /\ pc' = "loop"
  /\ UNCHANGED <<filterVars, registryVars, sError, sMessageBuffer, exitCode, harnessVars,
                 prevFilterStr, mSizes, mState, mIteration, passes>>

NextTwice ==
  \/ ParamSetFilter
  \/ TwiceRunTestsEnter
  \/ ParamVisit
  \/ ParamGetNext
  \/ ProductRunTestsFinish

SpecTwice == InitTwice /\ [][NextTwice]_vars

\* ------------------------------------------------- RunTests run to its end
\* the registries of a program one test of which returns while the other throws, in
\* the two orders in which their constructors may run
ThrowingRegistries ==
  { <<[ParamTest EXCEPT !.mNext = 2, !.body = "throw"], PlainTest>>,
    <<[PlainTest EXCEPT !.mNext = 2, !.body = "throw"], ParamTest>> }

\* a program with one XM_TEST and one XM_TEST_C test over non-empty sets, either of
\* which may throw
InitRun ==
  /\ sIncludeFilter = <<kFilterWildcard>>
  /\ sExcludeFilter = <<>>
  /\ sFirst = 1
  /\ sLast = 2
  /\ tests \in ThrowingRegistries
  /\ sError = NullPtr
  /\ sMessageBuffer = <<>>
  /\ sOutput = <<>>
  /\ filterStr = NotCalled
  /\ pc = "idle"
  /\ test = NullTest
  /\ allowed = FALSE
  /\ result = FALSE
  /\ run = 0
  /\ passed = 0
  /\ ignored = 0
  /\ lastSuite = 0
  /\ exitCode = 0
  /\ prevFilterStr = NotCalled
  /\ argFilters = <<>>
  /\ argId = <<>>
  /\ matched = NotMatched
  /\ mSizes \in AxisSizes
  /\ mState = [i \in 1..Len(mSizes) |-> 0]
  /\ mIteration = 0
  /\ calls = <<>>
  /\ passes = 0

\* RunTests is sequential code: once it is called, every round of its loop, every
\* GetNext and the tally run without waiting for anything; SetFilter and the call of
\* RunTests are up to the program
RunTestsProgress == WF_vars(ParamVisit \/ ParamGetNext \/ ProductRunTestsFinish)

\* RunTests called by a program that calls it once
RunTestsEnterOnce ==
  /\ passes = 0
  /\ ProductRunTestsEnter

NextRun ==
  \/ ParamSetFilter
  \/ RunTestsEnterOnce
  \/ ParamVisit
  \/ ParamGetNext
  \/ ProductRunTestsFinish

SpecRun == InitRun /\ [][NextRun]_vars /\ RunTestsProgress

\* --------------------------------------------- IsAllowed over long names
\* a name of n characters, the last of which is unlike the others
LongName(n) == [i \in 1..n |-> IF i = n THEN "Z" ELSE "A"]

\* the lengths of the names: short ones, and the ones with which, after a suite and
\* '_', the id fills sMessageBuffer short of a few characters, exactly, and beyond
LongNameLens ==
  {1, 2} \cup { n \in 1..(MessageBufferSize + MaxOverrun) : n + 12 >= MessageBufferSize }

LongFilterStrs ==
  { <<"*", "Z">>, <<"-", "*", "Z">>, <<"B", "a", "r", "*">> }

\* SetFilter called before IsAllowed
LongSetFilter ==
  /\ \E s \in LongFilterStrs : SetFilter(s)
  /\ UNCHANGED prevFilterStr

\* IsAllowed(suite, name) as RunTests calls it for a test with a long name. With an
\* idEnd beyond the end of sMessageBuffer the pointer and what is read through the
\* range [id, idEnd) are undefined, and the value may be either
CallIsAllowed ==
  /\ pc = "idle"
  /\ \E a \in 1..2, n \in LongNameLens :
       LET suite == SuiteLiteral[a]
           name == LongName(n)
           verdict == IsAllowed(sIncludeFilter, sExcludeFilter, suite, name)
       IN  /\ sMessageBuffer' = verdict.buffer
           /\ argId' = CandidateId(suite, name)
           /\ calls' = <<[op |-> "IsAllowed", idEnd |-> verdict.idEnd]>>
           /\ IF verdict.idEnd > MessageBufferSize
              THEN \E value \in BOOLEAN : matched' = [fn |-> "IsAllowed", value |-> value]
              ELSE matched' = [fn |-> "IsAllowed", value |-> verdict.value]
  /\ UNCHANGED <<filterVars, registryVars, sError, sOutput, pc, frameVars, exitCode,
                 argFilters, prevFilterStr, mSizes, mState, mIteration, passes>>

NextLong == LongSetFilter \/ CallIsAllowed

SpecLong == Init /\ [][NextLong]_vars

\* ---------------------------------------------------- what the claims speak of
HasWildcard(p) == \E k \in 1..Len(p) : p[k] = kFilterWildcard

StartsWith(c, p) == Len(p) <= Len(c) /\ SubSeq(c, 1, Len(p)) = p

EndsWith(c, p) == Len(p) <= Len(c) /\ SubSeq(c, Len(c) - Len(p) + 1, Len(c)) = p

\* c is p with every wildcard replaced by some string and every other character kept
RECURSIVE Glob(_, _)
Glob(p, c) ==
  IF p = <<>>
  THEN c = <<>>
  ELSE IF Head(p) = kFilterWildcard
       THEN \E k \in 0..Len(c) : Glob(Tail(p), SubSeq(c, k + 1, Len(c)))
       ELSE c # <<>> /\ Head(c) = Head(p) /\ Glob(Tail(p), Tail(c))

\* the non-empty separator-delimited tokens of a filter list
Tokens(list) ==
  { SubSeq(list, a, b) : <<a, b>> \in
      { ab \in (1..Len(list)) \X (1..Len(list)) :
          /\ ab[1] <= ab[2]
          /\ \A k \in ab[1]..ab[2] : list[k] # kListSeparator
          /\ (ab[1] = 1 \/ list[ab[1] - 1] = kListSeparator)
          /\ (ab[2] = Len(list) \/ list[ab[2] + 1] = kListSeparator) } }

Match(p, c) == FilterMatch(p, 0, Len(p), c, 0, Len(c))

MatchAny(list, c) == FiltersMatch(list, c, 0, Len(c))

CalledFilterMatch == matched.fn = "FilterMatch"

CalledFiltersMatch == matched.fn = "FiltersMatch"

\* ----------------------------------------------------------------------- C1
\* C1: FilterMatch returns true exactly when the id is the filter with every
\* wildcard replaced by some string.
C1_MatchIsSubstitution ==
  CalledFilterMatch => (matched.value <=> Glob(argFilters, argId))

\* ----------------------------------------------------------------------- C2
\* C2: a filter without wildcard matches exactly the id equal to it.
C2_LiteralMatchIsEquality ==
  (CalledFilterMatch /\ ~HasWildcard(argFilters)) => (matched.value <=> argFilters = argId)

\* ----------------------------------------------------------------------- C3
\* C3: a literal P followed by one wildcard matches exactly the ids that start with P.
C3_TrailingWildcardIsPrefix ==
  (/\ CalledFilterMatch
   /\ argFilters # <<>>
   /\ argFilters[Len(argFilters)] = kFilterWildcard
   /\ ~HasWildcard(SubSeq(argFilters, 1, Len(argFilters) - 1)))
    => (matched.value <=> StartsWith(argId, SubSeq(argFilters, 1, Len(argFilters) - 1)))

\* ----------------------------------------------------------------------- C4
\* C4: one wildcard followed by a literal P matches exactly the ids that end with P.
C4_LeadingWildcardIsSuffix ==
  (/\ CalledFilterMatch
   /\ argFilters # <<>>
   /\ argFilters[1] = kFilterWildcard
   /\ ~HasWildcard(Tail(argFilters)))
    => (matched.value <=> EndsWith(argId, Tail(argFilters)))

\* ----------------------------------------------------------------------- C5
\* C5: the filter "*" matches every id, the empty id included.
C5_LoneWildcardMatchesAll ==
  (CalledFilterMatch /\ argFilters = <<kFilterWildcard>>) => matched.value

C5_Witness ==
  /\ CalledFilterMatch
  /\ argFilters = <<kFilterWildcard>>
  /\ argId = <<>>
  /\ matched.value

\* ----------------------------------------------------------------------- C6
\* C6: the value of IsAllowed for the test being visited is: some inclusion filter
\* matches its id and no exclusion filter does; an id matching both is not allowed,
\* and with no exclusion filter IsAllowed is the inclusion match alone.
C6_IsAllowedIsIncludeAndNotExclude ==
  pc = "filtered" =>
    /\ allowed <=> (MatchAny(sIncludeFilter, TestId(test))
                    /\ ~MatchAny(sExcludeFilter, TestId(test)))
    /\ (MatchAny(sIncludeFilter, TestId(test)) /\ MatchAny(sExcludeFilter, TestId(test)))
         => ~allowed
    /\ sExcludeFilter = <<>> => (allowed <=> MatchAny(sIncludeFilter, TestId(test)))

C6_Witness ==
  /\ pc = "filtered"
  /\ MatchAny(sIncludeFilter, TestId(test))
  /\ MatchAny(sExcludeFilter, TestId(test))
  /\ ~allowed

\* ----------------------------------------------------------------------- C7
FooTest_That == <<"F", "o", "o", "T", "e", "s", "t", "_", "T", "h", "a", "t">>
FooTest_NotThis ==
  <<"F", "o", "o", "T", "e", "s", "t", "_", "N", "o", "t", "T", "h", "i", "s">>
FooTest_This == <<"F", "o", "o", "T", "e", "s", "t", "_", "T", "h", "i", "s">>

ScenarioIds == {FooTest_That, FooTest_NotThis, FooTest_This}

RegisteredIds == { TestId(t) : t \in 1..Len(tests) }

StartedIds == { sOutput[k].text : k \in { j \in 1..Len(sOutput) : sOutput[j].status = "STARTED" } }

\* C7: under the filter string "*This*-Not*", of FooTest_That, FooTest_NotThis and
\* FooTest_This only FooTest_This is allowed, and a run over the three starts
\* FooTest_This alone.
C7_ScenarioAllowsOnlyThis ==
  filterStr = ScenarioFilter =>
    /\ (pc = "filtered" /\ TestId(test) \in ScenarioIds)
         => (allowed <=> TestId(test) = FooTest_This)
    /\ (pc = "done" /\ RegisteredIds = ScenarioIds) => StartedIds = {FooTest_This}

C7_Witness ==
  /\ filterStr = ScenarioFilter
  /\ pc = "done"
  /\ RegisteredIds = ScenarioIds
  /\ StartedIds = {FooTest_This}
  /\ ignored = 2

\* ----------------------------------------------------------------------- C8
\* C8: for every id IsAllowed can hand over, which holds '_' and so is never empty,
\* FiltersMatch returns true exactly when FilterMatch holds for one of the non-empty
\* tokens of the list, so that empty tokens (leading, trailing or doubled ':') never
\* produce a match; and an empty list matches no id at all, the empty id included.
C8_MatchAnyIsSomeNonEmptyToken ==
  CalledFiltersMatch =>
    /\ argId # <<>>
         => (matched.value <=> \E token \in Tokens(argFilters) : Match(token, argId))
    /\ argFilters = <<>> => ~matched.value

\* a list with a leading or doubled empty token has matched a non-empty id through a
\* token that is not its first
C8_Witness ==
  /\ CalledFiltersMatch
  /\ argId # <<>>
  /\ matched.value
  /\ Len(argFilters) >= 2
  /\ \/ argFilters[1] = kListSeparator
     \/ \E k \in 1..(Len(argFilters) - 1) :
          argFilters[k] = kListSeparator /\ argFilters[k + 1] = kListSeparator
  /\ ~Match(SubSeq(argFilters, 1, strcspn(argFilters, 0, {kListSeparator})), argId)

\* ----------------------------------------------------------------------- C9
DefaultFilters == filterStr \in {NotCalled, NullStr, <<>>}

\* C9: while SetFilter was not called, or was last called with a null pointer or an
\* empty string, the filters are "*" and nothing, IsAllowed holds for every id, and
\* RunTests ends with ignored = 0.
C9_AllIncludedByDefault ==
  DefaultFilters =>
    /\ sIncludeFilter = <<kFilterWildcard>>
    /\ sExcludeFilter = <<>>
    /\ \A d \in Decls :
         IsAllowed(sIncludeFilter, sExcludeFilter, SuiteLiteral[d.mSuite], d.mName).value
    /\ \A suite \in Seqs({"A", kFilterWildcard}, 1), name \in Seqs({"B", kListSeparator}, 1) :
         IsAllowed(sIncludeFilter, sExcludeFilter, suite, name).value
    /\ pc = "filtered" => allowed
    /\ pc = "done" => (ignored = 0 /\ run = Len(tests))

C9_Witness ==
  /\ filterStr = <<>>
  /\ pc = "done"
  /\ run >= 2
  /\ ignored = 0

\* ---------------------------------------------------------------------- C10
\* 1-based index of the first '-' of s, Len(s) + 1 when it has none
FirstMarker(s) ==
  Min({ k \in 1..Len(s) : s[k] = kNegativeMarker } \cup {Len(s) + 1})

TextBeforeMarker(s) == SubSeq(s, 1, FirstMarker(s) - 1)

TextAfterMarker(s) == SubSeq(s, FirstMarker(s) + 1, Len(s))

\* C10: after SetFilter(s) with s not null, the inclusion list is the text of s before
\* its first '-', or "*" when that text is empty, and the exclusion list is all the
\* text after that '-', later '-' included; SetFilter accepts every string.
C10_SetFilterSplitsAtFirstMarker ==
  /\ filterStr \notin {NotCalled, NullStr} =>
       /\ sIncludeFilter = IF TextBeforeMarker(filterStr) = <<>>
                           THEN <<kFilterWildcard>>
                           ELSE TextBeforeMarker(filterStr)
       /\ sExcludeFilter = TextAfterMarker(filterStr)
  /\ pc \in {"idle", "done"} => \A s \in FilterStrs : ENABLED SetFilter(s)

C10_Witness ==
  /\ filterStr = <<"F", "o", "o", "*", "-", "*", "-", "*">>
  /\ sIncludeFilter = <<"F", "o", "o", "*">>
  /\ sExcludeFilter = <<"*", "-", "*">>

\* ---------------------------------------------------------------------- C11
\* the filters SetFilter(s) leaves when it is the only call made
FiltersAlone(s) ==
  IF s = NullStr
  THEN <<(<<kFilterWildcard>>), <<>>>>
  ELSE <<IF TextBeforeMarker(s) = <<>> THEN <<kFilterWildcard>> ELSE TextBeforeMarker(s),
         TextAfterMarker(s)>>

\* C11: after SetFilter(s1) followed by SetFilter(s2) the filters are those of
\* SetFilter(s2) alone, whatever s1 was, and SetFilter(null) leaves "*" and nothing.
C11_PreviousFiltersDiscarded ==
  /\ filterStr # NotCalled => <<sIncludeFilter, sExcludeFilter>> = FiltersAlone(filterStr)
  /\ \A s1 \in FilterStrs :
       (prevFilterStr = s1 /\ filterStr = NullStr)
         => (sIncludeFilter = <<kFilterWildcard>> /\ sExcludeFilter = <<>>)

C11_Witness ==
  /\ prevFilterStr = ScenarioFilter
  /\ filterStr = <<"A">>
  /\ sIncludeFilter = <<"A">>
  /\ sExcludeFilter = <<>>

\* ---------------------------------------------------------------------- C12
\* the line that ends a run: "[...] Final result."
FinalLine == sOutput[Len(sOutput)]

IsFinishedLine(l) == l.status \in {"OK", "FAILED"} /\ l.text # <<"F">>

\* the OK / FAILED lines of the tests executed, in the order written
FinishedLines == SelectSeq(sOutput, IsFinishedLine)

IsFailedLine(l) == l.status = "FAILED" /\ l.text # <<"F">>

FailedCount == Len(SelectSeq(sOutput, IsFailedLine))

\* C12: RunTests returns run - passed, the number of executed tests that failed; it
\* returns 0 exactly when none failed, also when nothing was executed, and the final
\* line reports success exactly when passed = run.
C12_ReturnsNumberOfFailures ==
  pc = "done" =>
    /\ exitCode = run - passed
    /\ exitCode = FailedCount
    /\ exitCode = 0 <=> FailedCount = 0
    /\ run = 0 => exitCode = 0
    /\ FinalLine.text = <<"F">>
    /\ FinalLine.status = "OK" <=> passed = run

C12_Witness ==
  /\ pc = "done"
  /\ exitCode = 2
  /\ ignored = 1
  /\ passed = 0
  /\ FinalLine.status = "FAILED"

\* ---------------------------------------------------------------------- C13
\* the entries of the registry from the Test at address t on, following mNext
RECURSIVE EntriesFrom(_)
EntriesFrom(t) == IF t = NullTest THEN 0 ELSE 1 + EntriesFrom(tests[t].mNext)

\* C13: a body that fails an assertion or throws anything ends in a result of false
\* with the error recorded, never outside RunTests; reporting it counts the test as run
\* and not as passed and goes on to the next entry, and when RunTests returns every
\* entry of the registry was executed or ignored.
C13_FailureIsContained ==
  [][/\ (pc = "running" /\ tests[test].body # "return")
          => (pc' = "ran" /\ ~result' /\ sError' # NullPtr /\ test' = test)
     /\ (pc = "ran" /\ ~result)
          => /\ run' = run + 1
             /\ passed' = passed
             /\ ignored' = ignored
             /\ test' = tests[test].mNext
             /\ pc' = "loop"
             /\ sError' = NullPtr
     /\ (pc \in {"loop", "filtered", "running", "ran"})
          => run' + ignored' + EntriesFrom(test') = Len(tests')
    ]_vars

C13_Witness ==
  /\ pc = "done"
  /\ run = 3
  /\ passed = 1
  /\ \E i, j \in 1..Len(sOutput) :
       /\ i < j
       /\ IsFailedLine(sOutput[i])
       /\ sOutput[j].status = "OK"
       /\ sOutput[j].text # <<"F">>

\* ---------------------------------------------------------------------- C14
\* IsAllowed for the Test constructed t-th, under the filters as they are
AllowedTest(t) ==
  IsAllowed(sIncludeFilter, sExcludeFilter, SuiteLiteral[tests[t].mSuite],
            tests[t].mName).value

IsTestEvent(l) == l.status = "STARTED" \/ IsFinishedLine(l)

\* the started and finished lines written so far
TestEvents == SelectSeq(sOutput, IsTestEvent)

\* started and finished, once each, of the allowed ones of the first n Tests
\* constructed, in the order of construction
RECURSIVE EventsInOrder(_)
EventsInOrder(n) ==
  IF n = 0
  THEN <<>>
  ELSE EventsInOrder(n - 1)
       \o (IF AllowedTest(n)
           THEN <<Line("STARTED", TestId(n), 0),
                  Line(IF tests[n].body = "return" THEN "OK" ELSE "FAILED", TestId(n), 0)>>
           ELSE <<>>)

IsPrefix(a, b) == Len(a) <= Len(b) /\ SubSeq(b, 1, Len(a)) = a

\* C14: the started and finished lines of a run are those of the allowed tests in the
\* order their Test objects were constructed, every test started once and finished
\* before the next one starts.
C14_RunsInRegistrationOrder ==
  /\ pc = "ran" => IsPrefix(TestEvents, EventsInOrder(Len(tests)))
  /\ pc = "done" => TestEvents = EventsInOrder(Len(tests))

C14_Witness ==
  /\ pc = "done"
  /\ Len(TestEvents) = 6
  /\ TestEvents[1].text # TestEvents[3].text
  /\ TestEvents[3].text # TestEvents[5].text
  /\ TestEvents[1].text # TestEvents[5].text

\* ---------------------------------------------------------------------- C15
SuiteName(t) == SuiteLiteral[tests[t].mSuite]

IsHeaderOrStarted(l) == (l.status = "SUITE" /\ l.text # <<>>) \/ l.status = "STARTED"

\* the suite headers and started lines written so far
HeadersAndStarts == SelectSeq(sOutput, IsHeaderOrStarted)

\* the started lines of the first n Tests constructed, with a header before the first
\* and before each whose suite name differs from that of the Test before it
RECURSIVE HeaderPerSuiteName(_)
HeaderPerSuiteName(n) ==
  IF n = 0
  THEN <<>>
  ELSE HeaderPerSuiteName(n - 1)
       \o (IF n = 1 \/ SuiteName(n) # SuiteName(n - 1)
           THEN <<Line("SUITE", SuiteName(n), 0)>>
           ELSE <<>>)
       \o <<Line("STARTED", TestId(n), 0)>>

\* C15: with no filter set, a run writes a suite header before the first test and
\* before every test whose suite name differs from that of the test registered just
\* before it, and nowhere else.
C15_HeaderWhereSuiteNameChanges ==
  (filterStr = NotCalled /\ pc = "done")
    => HeadersAndStarts = HeaderPerSuiteName(Len(tests))

\* ---------------------------------------------------------------------- C16
IsStartedLine(l) == l.status = "STARTED"

IsPassedLine(l) == l.status = "OK" /\ l.text # <<"F">>

\* the number a tally line reports, 0 when the line was not written
Tally(what) ==
  LET at == { k \in 1..Len(sOutput) : sOutput[k].status = "TALLY" /\ sOutput[k].text = what }
  IN  IF at = {} THEN 0 ELSE sOutput[Min(at)].n

\* C16: when RunTests returns, run is the number of bodies invoked, passed the number
\* of those that returned normally, ignored the number of entries the filter rejected,
\* passed <= run and run + ignored is the number of entries visited; the tally lines
\* report these numbers. A failing test followed by a passing one, no filter set, ends
\* with run = 2, passed = 1, ignored = 0 and the return value 1.
C16_TallyCountsVisits ==
  /\ passed <= run
  /\ pc = "done" =>
       /\ run = Len(SelectSeq(sOutput, IsStartedLine))
       /\ passed = Len(SelectSeq(sOutput, IsPassedLine))
       /\ ignored = Cardinality({ t \in 1..Len(tests) : ~AllowedTest(t) })
       /\ run + ignored = Len(tests)
       /\ Tally(<<"r">>) = run /\ Tally(<<"p">>) = passed /\ Tally(<<"i">>) = ignored
       /\ (/\ filterStr = NotCalled
           /\ Len(tests) = 2
           /\ tests[1].body # "return"
           /\ tests[2].body = "return")
            => (run = 2 /\ passed = 1 /\ ignored = 0 /\ exitCode = 1)

C16_Witness ==
  /\ pc = "done"
  /\ filterStr = NotCalled
  /\ Len(FinishedLines) = 2
  /\ FinishedLines[1].status = "FAILED"
  /\ FinishedLines[2].status = "OK"
  /\ run = 2 /\ passed = 1 /\ ignored = 0 /\ exitCode = 1

\* ---------------------------------------------------------------------- C17
\* C17: the body of the entry visited is invoked exactly when IsAllowed holds for its
\* id at that visit: an allowed visit writes the started line and runs the body, a
\* disallowed one adds one to ignored, writes nothing, runs nothing and moves on.
C17_BodyRunsIffAllowed ==
  [][/\ pc = "filtered" => (allowed <=> AllowedTest(test))
     /\ (pc = "filtered" /\ ~allowed)
          => /\ ignored' = ignored + 1
             /\ run' = run
             /\ passed' = passed
             /\ sOutput' = sOutput
             /\ test' = tests[test].mNext
             /\ pc' = "loop"
     /\ (pc = "filtered" /\ allowed)
          => /\ pc' = "running"
             /\ test' = test
             /\ ignored' = ignored
             /\ sOutput'[Len(sOutput')] = Line("STARTED", TestId(test), 0)
     /\ (pc' = "running" /\ pc # "running") => (pc = "filtered" /\ AllowedTest(test))
     /\ (pc = "running") => (pc' = "ran" /\ AllowedTest(test))
    ]_vars

C17_Witness ==
  /\ pc = "running"
  /\ ignored = 1
  /\ run = 1
  /\ AllowedTest(test)
  /\ \E t \in 1..Len(tests) : ~AllowedTest(t)

\* ---------------------------------------------------------------------- C18
\* n_1 * ... * n_i
RECURSIVE ProductUpTo(_, _)
ProductUpTo(sizes, i) == IF i = 0 THEN 1 ELSE ProductUpTo(sizes, i - 1) * sizes[i]

SpaceSize == ProductUpTo(mSizes, Len(mSizes))

IsBodyCall(c) == c.op = "RunTest"

IsAdvanceCall(c) == c.op = "Advance"

\* the calls of the body and of Advance() in the current or last pass
BodyCalls == SelectSeq(calls, IsBodyCall)

AdvanceCalls == SelectSeq(calls, IsAdvanceCall)

\* C18: in a pass over a parameterized test with non-empty sets of sizes n1, ..., nk
\* Advance() returns true n1*...*nk - 1 times and then false, the body runs n1*...*nk
\* times, once with every combination, and the ordinals it is passed are
\* 0, 1, ..., n1*...*nk - 1 in this order.
C18_PassIsExhaustive ==
  pc = "done" =>
    /\ Len(AdvanceCalls) = SpaceSize
    /\ \A k \in 1..Len(AdvanceCalls) : AdvanceCalls[k].value <=> k < SpaceSize
    /\ Len(BodyCalls) = SpaceSize
    /\ Cardinality({ BodyCalls[k].mState : k \in 1..Len(BodyCalls) }) = SpaceSize
    /\ \A k \in 1..Len(BodyCalls) : BodyCalls[k].xmIteration = k - 1

\* ---------------------------------------------------------------------- C19
\* the index that ordinal k selects on axis i when axis 1 varies fastest
OdometerIndex(k, i) == (k \div ProductUpTo(mSizes, i - 1)) % mSizes[i]

\* C19: the first set varies fastest: the body call that is passed ordinal k gets, of
\* set i, the element at index (k div (n_1*...*n_(i-1))) mod n_i. For kNames = Alice,
\* Bob, Charlie and kAges = 8, 21, 50 a pass calls the body with (Alice, 8), (Bob, 8),
\* (Charlie, 8), (Alice, 21), ..., (Charlie, 50), and the Advance() after the call with
\* ordinal 8 returns false.
C19_OdometerOrder ==
  /\ \A k \in 1..Len(calls) :
       IsBodyCall(calls[k]) =>
         \A i \in 1..Len(mSizes) :
           /\ calls[k].mState[i] = OdometerIndex(calls[k].xmIteration, i)
           /\ calls[k].xmProductSet[i] = SetElement(i, OdometerIndex(calls[k].xmIteration, i))
  /\ mSizes = <<3, 3>> =>
       /\ pc = "done" =>
            [k \in 1..Len(BodyCalls) |-> BodyCalls[k].xmProductSet]
              = << <<"Alice", "8">>, <<"Bob", "8">>, <<"Charlie", "8">>,
                   <<"Alice", "21">>, <<"Bob", "21">>, <<"Charlie", "21">>,
                   <<"Alice", "50">>, <<"Bob", "50">>, <<"Charlie", "50">> >>
       /\ \A k \in 1..(Len(calls) - 1) :
            (IsBodyCall(calls[k]) /\ calls[k].xmIteration = 8)
              => (IsAdvanceCall(calls[k + 1]) /\ ~calls[k + 1].value)

C19_Witness ==
  /\ mSizes = <<3, 3>>
  /\ pc = "done"
  /\ Len(calls) = 18
  /\ calls[17].xmProductSet = <<"Charlie", "50">>
  /\ calls[17].xmIteration = 8
  /\ ~calls[18].value

\* ---------------------------------------------------------------------- C20
\* C20: Reset() leaves the iteration counter at 0: once a pass is over GetIteration()
\* is 0, and the first body call of every pass is passed ordinal 0.
C20_ResetZeroesIteration ==
  /\ pc = "done" => GetIteration(mIteration) = 0
  /\ BodyCalls # <<>> => BodyCalls[1].xmIteration = 0

\* ---------------------------------------------------------------------- C21
FirstElements == [i \in 1..Len(mSizes) |-> SetElement(i, 0)]

\* C21: whatever was called before, Reset() leaves the state from which
\* GetProductSet() returns the first element of every set, and a Reset() that follows a
\* Reset() changes nothing.
C21_ResetIsIdempotent ==
  \A k \in 1..Len(calls) :
    calls[k].op = "Reset" =>
      /\ \A i \in 1..Len(mSizes) : calls[k].mState[i] = 0
      /\ (k < Len(calls) /\ calls[k + 1].op = "GetProductSet")
           => calls[k + 1].xmProductSet = FirstElements
      /\ (k < Len(calls) /\ calls[k + 1].op = "Reset")
           => /\ calls[k + 1].mState = calls[k].mState
              /\ calls[k + 1].xmIteration = calls[k].xmIteration
      /\ k = Len(calls) => GetProductSet(mState) = FirstElements

C21_Witness ==
  /\ mSizes = <<2, 3>>
  /\ Len(calls) = 4
  /\ calls[1].op = "Advance"
  /\ calls[2].op = "Advance"
  /\ calls[2].mState = <<0, 1>>
  /\ calls[3].op = "Reset"
  /\ calls[4].op = "GetProductSet"
  /\ calls[4].xmProductSet = <<"Alice", "8">>

\* ---------------------------------------------------------------------- C22
IsVisit(call) == call.op = "Visit"

IsIgnoredParamVisit(k) ==
  /\ calls[k].op = "Visit"
  /\ IsParameterized(calls[k].test)
  /\ ~calls[k].allowed

Visits == SelectSeq(calls, IsVisit)

IsIgnoredVisit(call) == call.op = "Visit" /\ ~call.allowed

\* C22 as the specification has it: after a visit of a parameterized test whose id is
\* not allowed, Advance() is not called and the visit that follows is of another test.
C22_FilteredOutSkippedWhole ==
  \A k \in 1..Len(calls) :
    (IsIgnoredParamVisit(k) /\ k < Len(calls)) =>
      /\ calls[k + 1].op = "Visit"
      /\ calls[k + 1].test # calls[k].test

\* C22, amended: a visit of a parameterized test whose id is not allowed counts one
\* ignored test and runs no body, and then GetNext() calls Advance() as after any other
\* visit: the combination after it is visited next and filtered by its own id.
C22_IgnoredVisitAdvances ==
  /\ pc \in {"loop", "visited", "done"} => ignored = Len(SelectSeq(calls, IsIgnoredVisit))
  /\ \A k \in 1..Len(calls) :
       (IsIgnoredParamVisit(k) /\ k < Len(calls)) =>
         /\ calls[k + 1].op = "Advance"
         /\ (calls[k + 1].value /\ k + 1 < Len(calls)) =>
              /\ calls[k + 2].op = "Visit"
              /\ calls[k + 2].test = calls[k].test
              /\ calls[k + 2].mState = calls[k + 1].mState
              /\ calls[k + 2].mState # calls[k].mState
              /\ calls[k + 2].id = GetId(calls[k].test, calls[k + 1].mState)

\* filter *kAges[1]* on kNames x kAges of sizes 2 x 2: (0,0) ignored, (1,0) ignored,
\* (0,1) and (1,1) run
C22_Witness ==
  /\ mSizes = <<2, 2>>
  /\ pc = "done"
  /\ ignored = 3
  /\ run = 2
  /\ \E k \in 1..Len(calls) :
       /\ IsIgnoredParamVisit(k)
       /\ calls[k].mState = <<1, 0>>
       /\ calls[k + 1].op = "Advance"
       /\ calls[k + 2].op = "Visit"
       /\ calls[k + 2].allowed
       /\ calls[k + 2].mState = <<0, 1>>

\* ---------------------------------------------------------------------- C23
HasEmptyAxis == \E i \in 1..Len(mSizes) : mSizes[i] = 0

\* Run() of the parameterized test was entered: GetProductSet() was evaluated, and the
\* body was called unless the read ended the program
IsParamRun(call) == call.op \in {"RunTest", "Crash"} /\ IsParameterized(call.test)

\* C23: when a set of the space of a parameterized test is empty, the body of the test
\* is never executed, and no index that is out of the range of its set is ever used to
\* select an element.
C23_EmptyAxisRunsNothing ==
  /\ HasEmptyAxis => \A k \in 1..Len(calls) : ~IsParamRun(calls[k])
  /\ \A k \in 1..Len(calls) :
       IsParamRun(calls[k]) => \A i \in 1..Len(mSizes) : calls[k].mState[i] < mSizes[i]

\* ---------------------------------------------------------------------- C24
IsParamVisit(call) == call.op = "Visit" /\ IsParameterized(call.test)

ParamVisits == SelectSeq(calls, IsParamVisit)

\* for each set in declaration order '_' name '[' index ']', the last set written last
RECURSIVE IndexSuffix(_)
IndexSuffix(state) ==
  IF state = <<>>
  THEN <<>>
  ELSE IndexSuffix(SubSeq(state, 1, Len(state) - 1))
       \o <<"_">> \o SetName(Len(state)) \o <<"[">> \o Decimal(state[Len(state)]) \o <<"]">>

\* C24: the id of a visit of a parameterized test is suite '_' name followed by
\* '_' set '[' index ']' for every set in declaration order; over sets of sizes 1 and 2
\* the visits have the suffixes [0][0], then [0][1]; the ids of different combinations
\* are different (there are as many ids as combinations visited).
C24_IdCarriesIndices ==
  LET visits == ParamVisits
      ids == {visits[k].id : k \in 1..Len(visits)}
      states == {visits[k].mState : k \in 1..Len(visits)}
  IN  /\ \A k \in 1..Len(visits) :
           visits[k].id = <<"B", "a", "r", "_", "A">> \o IndexSuffix(visits[k].mState)
      /\ Cardinality(ids) = Cardinality(states)
      /\ mSizes = <<1, 2>> =>
           \A k \in 1..Len(visits) :
             visits[k].id = <<"B", "a", "r", "_", "A", "_", "k", "N", "a", "m", "e", "s",
                              "[", "0", "]", "_", "k", "A", "g", "e", "s", "[">>
                            \o (IF k = 1 THEN <<"0">> ELSE <<"1">>) \o <<"]">>

C24_Witness ==
  /\ mSizes = <<1, 2>>
  /\ pc = "done"
  /\ Len(ParamVisits) = 2
  /\ ParamVisits[1].mState = <<0, 0>>
  /\ ParamVisits[2].mState = <<0, 1>>
  /\ ParamVisits[2].allowed

\* ---------------------------------------------------------------------- C25
IsExecutedParamVisit(k) ==
  /\ calls[k].op = "Visit"
  /\ IsParameterized(calls[k].test)
  /\ calls[k].allowed

\* the tests of the visits logged, in order
VisitedTests ==
  LET visits == Visits
  IN  [k \in 1..Len(visits) |-> visits[k].test]

\* C25: after an executed visit of a parameterized test, when Advance() returns true the
\* next visit is of the same test with the id of the new indices, and when it returns
\* false the indices are reset and the next visit, if any, is of the next test of the
\* registry; so the visits of a test are consecutive (the test changes between two
\* visits one time less than there are tests visited).
C25_CombinationsAreConsecutive ==
  /\ \A k \in 1..Len(calls) :
       (IsExecutedParamVisit(k) /\ k + 2 <= Len(calls)) =>
         /\ calls[k + 1].op = "RunTest"
         /\ calls[k + 2].op = "Advance"
         /\ k + 3 <= Len(calls) =>
              /\ calls[k + 3].op = "Visit"
              /\ IF calls[k + 2].value
                 THEN /\ calls[k + 3].test = calls[k].test
                      /\ calls[k + 3].mState = calls[k + 2].mState
                      /\ calls[k + 3].id = GetId(calls[k].test, calls[k + 2].mState)
                      /\ calls[k + 3].id # calls[k].id
                 ELSE /\ calls[k + 3].test = tests[calls[k].test].mNext
                      /\ calls[k + 3].test # calls[k].test
         /\ (k + 2 = Len(calls) /\ pc = "loop") =>
              IF calls[k + 2].value
              THEN test = calls[k].test /\ mState = calls[k + 2].mState
              ELSE test = tests[calls[k].test].mNext /\ \A i \in 1..Len(mState) : mState[i] = 0
  /\ LET visited == VisitedTests
         switches == {j \in 1..(Len(visited) - 1) : visited[j] # visited[j + 1]}
     IN  visited # <<>> =>
           Cardinality(switches) + 1 = Cardinality({visited[j] : j \in 1..Len(visited)})

\* the parameterized test registered first, all four combinations of 2 x 2 executed, then
\* the plain test
C25_Witness ==
  /\ mSizes = <<2, 2>>
  /\ pc = "done"
  /\ run = 5
  /\ IsParameterized(1)
  /\ VisitedTests = <<1, 1, 1, 1, 2>>

\* ---------------------------------------------------------------------- C26
AllZero(state) == \A i \in 1..Len(state) : state[i] = 0

\* C26: when Advance() returns false it leaves every index 0, and when a RunTests call
\* has returned every index of the parameterized test is 0.
C26_WrapsToZero ==
  /\ \A k \in 1..Len(calls) :
       (calls[k].op = "Advance" /\ ~calls[k].value) => AllZero(calls[k].mState)
  /\ pc = "done" => AllZero(mState)

C26_Witness ==
  /\ mSizes = <<2, 3>>
  /\ pc = "done"
  /\ passes = 2
  /\ run = 7
  /\ Len(AdvanceCalls) = 6
  /\ ~AdvanceCalls[6].value
  /\ AdvanceCalls[5].mState = <<1, 2>>

\* ---------------------------------------------------------------------- C27
\* the Test constructed just before t, NullTest for the first
PreviousTest(t) ==
  IF t = sFirst THEN NullTest ELSE CHOOSE p \in 1..Len(tests) : tests[p].mNext = t

SuiteDiffersFromPrevious(t) ==
  PreviousTest(t) = NullTest \/ SuiteName(t) # SuiteName(PreviousTest(t))

\* C27 as the specification has it: whenever the suite name of the test being visited
\* differs from that of the test visited before it, the visit writes a suite header,
\* also when the filters do not allow the test.
C27_HeaderBeforeFiltering ==
  [][(pc = "filtered" /\ SuiteDiffersFromPrevious(test))
       => /\ Len(sOutput') > Len(sOutput)
          /\ sOutput'[Len(sOutput) + 1] = Line("SUITE", SuiteName(test), 0)]_vars

\* C27, amended: the suite is looked at after the filter, in the branch of an allowed
\* test only: the visit of a test that is not allowed writes nothing and leaves
\* lastSuite, and the visit of an allowed test writes a header before the started line
\* exactly when the suite pointer of the test is not lastSuite, and then remembers it.
C27_HeaderAfterFiltering ==
  [][pc = "filtered"
       => IF allowed
          THEN /\ lastSuite' = tests[test].mSuite
               /\ sOutput' = sOutput
                    \o (IF tests[test].mSuite # lastSuite
                        THEN <<Line("SUITE", SuiteName(test), 0)>>
                        ELSE <<>>)
                    \o <<Line("STARTED", TestId(test), 0)>>
          ELSE /\ sOutput' = sOutput
               /\ lastSuite' = lastSuite]_vars

\* the first test, of one suite, was ignored without a header; the second, of another
\* suite, is allowed and the first line written is its header
C27_Witness ==
  /\ pc = "running"
  /\ ignored = 1
  /\ run = 0
  /\ test = tests[sFirst].mNext
  /\ SuiteName(sFirst) # SuiteName(test)
  /\ sOutput = <<Line("SUITE", SuiteName(test), 0), Line("STARTED", TestId(test), 0)>>

\* ---------------------------------------------------------------------- C28
\* the suite name an id starts with
SuiteOfId(id) == SubSeq(id, 1, strcspn(id, 0, {kJoinTestSuiteName}))

\* C28: a suite header is written only immediately before the started line of a test
\* of that suite, and the started line of a test has a header before it exactly when no
\* test was started before it in the run or the suite name of the test started last
\* differs from its own.
C28_HeaderOnlyBeforeExecuted ==
  LET lines == HeadersAndStarts
  IN  \A k \in 1..Len(lines) :
        IF lines[k].status = "SUITE"
        THEN /\ k < Len(lines)
             /\ lines[k + 1].status = "STARTED"
             /\ SuiteOfId(lines[k + 1].text) = lines[k].text
        ELSE (k > 1 /\ lines[k - 1].status = "SUITE")
               <=> \/ \A j \in 1..(k - 1) : lines[j].status # "STARTED"
                   \/ \E j \in 1..(k - 1) :
                        /\ lines[j].status = "STARTED"
                        /\ \A i \in (j + 1)..(k - 1) : lines[i].status # "STARTED"
                        /\ SuiteOfId(lines[j].text) # SuiteOfId(lines[k].text)

\* ---------------------------------------------------------------------- C29
\* a Test object whose id is the one a line names
TestWithId(id) == CHOOSE t \in 1..Len(tests) : TestId(t) = id

IsMessageLine(l) == l.status = ""

IsTallyLine(l) == l.status = "TALLY" \/ l.text = <<"F">> \/ (l.status = "SUITE" /\ l.text = <<>>)

\* the lines RunTests ends with
TallyBlock ==
  <<Line("SUITE", <<>>, 0), Line("TALLY", <<"r">>, run), Line("TALLY", <<"p">>, passed)>>
  \o (IF ignored > 0 THEN <<Line("TALLY", <<"i">>, ignored)>> ELSE <<>>)
  \o <<Line(IF passed = run THEN "OK" ELSE "FAILED", <<"F">>, 0)>>

\* every started line is followed by the result line of the same id, OK exactly for
\* a body that returns; a result line is followed by a message line exactly for the
\* bodies in withMessage; a message line follows a FAILED line; and the tally block is
\* written once, last, by the time RunTests has returned and not before
LinesInOrder(withMessage) ==
  /\ \A k \in 1..Len(sOutput) :
       LET l == sOutput[k]
       IN  /\ (l.status = "STARTED" /\ k < Len(sOutput)) =>
                /\ IsFinishedLine(sOutput[k + 1])
                /\ sOutput[k + 1].text = l.text
                /\ sOutput[k + 1].status = "OK" <=> tests[TestWithId(l.text)].body = "return"
           /\ IsFinishedLine(l) =>
                /\ k > 1
                /\ sOutput[k - 1] = Line("STARTED", l.text, 0)
                /\ (k < Len(sOutput) /\ IsMessageLine(sOutput[k + 1]))
                     <=> tests[TestWithId(l.text)].body \in withMessage
           /\ IsMessageLine(l) => (k > 1 /\ IsFailedLine(sOutput[k - 1]))
  /\ LET tally == SelectSeq(sOutput, IsTallyLine)
     IN  IF pc = "done"
         THEN /\ tally = TallyBlock
              /\ SubSeq(sOutput, Len(sOutput) - Len(tally) + 1, Len(sOutput)) = tally
         ELSE tally = <<>>

\* C29 as the specification has it: started, then finished with the same id and the
\* result, then a message line if and only if the test failed; the tally block once,
\* after the lines of the last test.
C29_MessageIffFailed == LinesInOrder(Bodies \ {"return"})

\* C29, amended: the message line is written if and only if the test failed with a
\* message that is not null.
C29_MessageIffFailedWithMessage == LinesInOrder(Bodies \ {"return", "failnull"})

\* a run of a test that calls XM_FAIL(nullptr) and then a test that fails a check: the
\* first has no message line, the second has one
C29_Witness ==
  /\ pc = "done"
  /\ Len(tests) = 2
  /\ tests[1].body = "failnull"
  /\ tests[2].body = "assert"
  /\ run = 2
  /\ passed = 0
  /\ Len(sOutput) = 11
  /\ sOutput[3] = Line("FAILED", TestId(1), 0)
  /\ sOutput[4].status = "SUITE"
  /\ sOutput[6] = Line("FAILED", TestId(2), 0)
  /\ sOutput[7] = Line("", ExpectedPrefix \o AssertExpr, 0)

\* ---------------------------------------------------------------------- C30
\* the message of the failure that ends the body of a test
OwnMessage(t) ==
  CASE tests[t].body \in {"assert", "assert_dtor"} -> ExpectedPrefix \o AssertExpr
    [] tests[t].body = "assert_long" -> ExpectedPrefix \o LongExpr
    [] tests[t].body = "fail" -> FailMessage
    [] tests[t].body = "throw" -> BadExceptionMessage
    [] OTHER -> <<>>

\* C30: sError is null when a body starts and after the message was written; from the
\* failure to the writing of the message line, what sError points to is the message of
\* the failure of that test, and the message line written after a FAILED line is the
\* message of the failure of the test that line names.
C30_MessageIsOwnFailure ==
  /\ pc # "ran" => sError = NullPtr
  /\ (pc = "ran" /\ ~result /\ sError # NullPtr)
       => Deref(sError, sMessageBuffer) = {OwnMessage(test)}
  /\ \A k \in 2..Len(sOutput) :
       IsMessageLine(sOutput[k])
         => sOutput[k].text = OwnMessage(TestWithId(sOutput[k - 1].text))

\* ---------------------------------------------------------------------- C31
\* the Tests reached from t by following mNext, at most n of them
RECURSIVE ChainFrom(_, _)
ChainFrom(t, n) ==
  IF t = NullTest \/ n = 0 THEN <<>> ELSE <<t>> \o ChainFrom(tests[t].mNext, n - 1)

\* sFirst and sLast are both null or both not, the chain from sFirst is the Tests
\* constructed, once each in the order of construction, and ends at sLast, whose mNext
\* is null
RegistryWellFormed ==
  /\ (sFirst = NullTest) <=> (sLast = NullTest)
  /\ ChainFrom(sFirst, Len(tests) + 1) = [t \in 1..Len(tests) |-> t]
  /\ sLast = Len(tests)
  /\ sLast # NullTest => tests[sLast].mNext = NullTest

\* a step that constructs a Test changes of the Tests there were only the mNext of the
\* one that was last, to the new Test; sLast becomes the new Test, and sFirst too when
\* there was none
ConstructionFrame ==
  Len(tests') # Len(tests) =>
    /\ Len(tests') = Len(tests) + 1
    /\ \A t \in 1..Len(tests) :
         tests'[t] = IF t = sLast THEN [tests[t] EXCEPT !.mNext = Len(tests) + 1] ELSE tests[t]
    /\ sLast' = Len(tests) + 1
    /\ sFirst' = IF sFirst = NullTest THEN Len(tests) + 1 ELSE sFirst

\* C31: after any number of constructions of Tests the registry is well formed, and a
\* construction changes only the mNext of the old last Test and sLast (and sFirst when
\* the registry was empty).
C31_RegistryIsAList == []RegistryWellFormed /\ [][ConstructionFrame]_vars

C31_Witness ==
  /\ Len(tests) = 3
  /\ sFirst = 1
  /\ sLast = 3
  /\ tests[1].mNext = 2
  /\ tests[2].mNext = 3
  /\ tests[3].mNext = NullTest
  /\ tests[1].body # tests[3].body

\* ---------------------------------------------------------------------- C32
\* the ids of the visits of the RunTests call in progress or just returned
VisitedIds ==
  LET visits == Visits
  IN  [k \in 1..Len(visits) |-> visits[k].id]

\* a RunTests call made right after another returned is in progress or has just returned
CalledAgain == pc \in {"loop", "visited", "done"} /\ calls # <<>> /\ calls[1].op = "Pass"

\* C32: a RunTests call leaves the registry and the filters as they were, and a call
\* made right after another has returned visits the same ids and reports the same run,
\* passed and ignored counts.
C32_SecondRunSameAsFirst ==
  CalledAgain =>
    /\ calls[1].registry = <<sFirst, sLast, tests>>
    /\ calls[1].filters = <<sIncludeFilter, sExcludeFilter>>
    /\ pc = "done" =>
         /\ VisitedIds = calls[1].ids
         /\ run = calls[1].run
         /\ ignored = calls[1].ignored
         /\ passed = calls[1].passed

\* ---------------------------------------------------------------------- C33
\* p with every run of wildcards replaced by one wildcard
RECURSIVE Collapse(_)
Collapse(p) ==
  IF Len(p) < 2
  THEN p
  ELSE IF p[1] = kFilterWildcard /\ p[2] = kFilterWildcard
       THEN Collapse(Tail(p))
       ELSE <<p[1]>> \o Collapse(Tail(p))

\* whether the id holds no wildcard character, as every id made of a suite and a name,
\* which are identifiers, and of the indices of a product set
HoldsNoWildcard(id) == \A k \in 1..Len(id) : id[k] # kFilterWildcard

\* C33: replacing every run of two or more wildcards of the filter by one wildcard does
\* not change what FilterMatch returns, for any id; and it does not change what the
\* recursive FilterMatch of the later revision returns for any id a test can have,
\* which holds no wildcard character.
C33_WildcardRunsCollapse ==
  CalledFilterMatch =>
    /\ matched.value = Match(Collapse(argFilters), argId)
    /\ HoldsNoWildcard(argId)
         => FilterMatchView(argFilters, argId) = FilterMatchView(Collapse(argFilters), argId)

\* a filter with a run of wildcards between two literals has matched an id that has
\* characters for the run to stand for
C33_Witness ==
  /\ CalledFilterMatch
  /\ matched.value
  /\ Collapse(argFilters) # argFilters
  /\ Len(Collapse(argFilters)) >= 3
  /\ argFilters[1] # kFilterWildcard
  /\ argFilters[Len(argFilters)] # kFilterWildcard
  /\ HoldsNoWildcard(argId)
  /\ Len(argId) > 2
  /\ FilterMatchView(argFilters, argId)

\* ---------------------------------------------------------------------- C34
NoSeparatorOrMarker(str) ==
  \A k \in 1..Len(str) : str[k] \notin {kListSeparator, kNegativeMarker}

\* C34: for every filter and id without ':' and '-', the FilterMatch of src/xm.cpp and
\* the recursive FilterMatch of the later revision return the same.
C34_ScanningMatchesRecursive ==
  (CalledFilterMatch /\ NoSeparatorOrMarker(argFilters) /\ NoSeparatorOrMarker(argId))
    => matched.value = FilterMatchView(argFilters, argId)

\* ---------------------------------------------------------------------- C35
InsideAxes(sizes, state) ==
  /\ Len(state) = Len(sizes)
  /\ \A i \in 1..Len(sizes) : 0 <= state[i] /\ state[i] < sizes[i]

\* C35: over non-empty sets, the index of every set is at least 0 and less than the
\* size of the set whenever the cursor is read: between the calls, in the state every
\* call leaves, and in the indices GetProductSet selects its values with.
C35_IndicesInsideAxes ==
  (\A i \in 1..Len(mSizes) : mSizes[i] > 0)
    => /\ InsideAxes(mSizes, mState)
       /\ \A k \in 1..Len(calls) : InsideAxes(mSizes, calls[k].mState)

\* an Advance carried into the second set, a later Advance wrapped the whole space,
\* and GetProductSet read the cursor afterwards
C35_Witness ==
  /\ Len(mSizes) = 2
  /\ \E j, k, l \in 1..Len(calls) :
       /\ j < k /\ k < l
       /\ calls[j].op = "Advance" /\ calls[j].value
       /\ calls[j].mState[1] = 0 /\ calls[j].mState[2] = 1
       /\ calls[k].op = "Advance" /\ ~calls[k].value
       /\ calls[l].op = "GetProductSet"

\* ---------------------------------------------------------------------- C36
\* 1 for a test of XM_TEST, the number of product sets for a test of XM_TEST_C
ExpectedVisits ==
  LET VisitsOf(t) == IF IsParameterized(t) THEN Combinations(mSizes) ELSE 1
      RECURSIVE Sum(_)
      Sum(t) == IF t = 0 THEN 0 ELSE VisitsOf(t) + Sum(t - 1)
  IN  Sum(Len(tests))

InRunTests == pc \in {"loop", "visited"}

\* C36: over tests that return or throw and non-empty sets, a RunTests call that has
\* begun reaches its end, and at its end it has visited exactly one id for the plain test
\* plus one for every product set of the parameterized test, each of them either run or
\* ignored, whatever the filter is; before the end it has never visited more.
C36_RunTestsTerminates ==
  /\ [](Len(Visits) <= ExpectedVisits)
  /\ [](pc = "done" => Len(Visits) = ExpectedVisits /\ run + ignored = ExpectedVisits)
  /\ InRunTests ~> (pc = "done")

\* a call has ended over a space of two sets and four or more product sets, with a
\* throwing parameterized test, some ids run and some ignored
C36_Witness ==
  /\ pc = "done"
  /\ Len(mSizes) = 2
  /\ Combinations(mSizes) >= 4
  /\ \E t \in 1..Len(tests) : IsParameterized(t) /\ tests[t].body = "throw"
  /\ run > 0
  /\ ignored > 0
  /\ passed < run

\* ---------------------------------------------------------------------- C37
CalledIsAllowed == matched.fn = "IsAllowed"

\* C37: after IsAllowed the buffer holds the whole of suite, '_' and name, and idEnd
\* is at most 1024 characters past the start of the buffer, however long they are.
C37_IdCompleteAndInsideBuffer ==
  CalledIsAllowed =>
    /\ sMessageBuffer = argId
    /\ calls[1].idEnd <= MessageBufferSize

====
